---- MODULE Spec2Model ----
(***************************************************************************)
(* Model of the edge agent's scripting runtime:                            *)
(*   - ConflictDetector        (scripting/conflict.rs)                     *)
(*   - ScriptRateLimiter and ExecutionContext (scripting/limits.rs)        *)
(*   - ScriptStorage           (scripting/storage.rs)                      *)
(*   - ScriptEngine            (scripting/engine.rs)                       *)
(*   - CircuitBreaker          (resilience/circuit_breaker.rs)             *)
(*   - run_agent and CommandHandler (main.rs, commands.rs)                 *)
(* Eleven specifications share the variables:                                 *)
(*   SpecCD  drives the ConflictDetector through its public methods,       *)
(*   SpecRL  drives ScriptRateLimiter::check against a clock in seconds,   *)
(*   Spec    is the engine: tick loop, execute_with_depth frames, storage, *)
(*   SpecReload is the engine over enough passes of the loop to reach the  *)
(*           periodic reload of the storage,                               *)
(*   SpecAdmin is the engine with add_script and disable_script,           *)
(*   SpecCB  drives the CircuitBreaker one call at a time,                 *)
(*   SpecCBC drives it from two threads, one atomic access per step,       *)
(*   SpecLife is the engine from init to the agent's shutdown,             *)
(*   SpecAgent is the command handler, the engine's reload and main's      *)
(*           cleanup over the scripts directory and AppState's lock,       *)
(*   SpecFair is the engine over call graphs, with a fair scheduler,       *)
(*   SpecModbus is the engine over scripts that write a Modbus register,   *)
(*           with the write_modbus command.                                *)
(***************************************************************************)
EXTENDS Integers, Sequences, FiniteSets, TLC

VARIABLES
    \* ConflictDetector fields
    gpio_writes, modbus_writes, coil_writes,
    \* history of the detector's calls since the last reset
    cd_last, cd_attempts, cd_conflicts, cd_was_reset, cd_calls,
    \* ScriptRateLimiter.windows, the monotonic clock (seconds), accepted checks
    windows, now, accepts,
    \* ScriptStorage.scripts (engine's in-memory copy) and the scripts directory
    scripts, disk,
    \* the engine task: position, frames of execute_with_depth, tick state
    pc, stack, scripts_to_run, reload_counter, ticks, horizon,
    \* AppState.gpio_handle is Some; the requests the hardware actors received
    \* in the current tick
    gpio_handle, hw_requests,
    \* the result of the last top-level execute_with_depth, runs started so far
    last_exec, runs,
    \* history: scripts whose error_count reached the threshold and were not
    \* re-enabled; actions dispatched in the current top-level run; the
    \* frames (script, depth) that dispatched an action
    sticky, run_dispatched, dispatch_log,
    \* ScriptContext: the values by path; history: the context as update_context
    \* left it at the start of the current pass of the loop
    context, tick_context,
    \* TriggerManager: the scripts whose startup trigger has fired; history: the
    \* scripts selected in this pass because it fired, and for every script the
    \* executions at depth 0 started on account of its startup trigger
    startup_fired, startup_due, startup_runs,
    \* run_agent: the position of the main task
    main,
    \* the scripts directory file by file; the command handler's ScriptStorage,
    \* the definition its fs::write is writing, its last response
    dir, cmd_scripts, cmd_pc, cmd_last,
    \* the guard of AppState's RwLock each task holds, each task's position
    guards, task_pc,
    \* CircuitBreaker fields: state, the two counters, last_failure; the threads
    \* holding last_failure's read lock; each calling thread's position and
    \* locals; whether calls of different threads may overlap
    cb_state, failure_count, success_count, last_failure, cb_lock, threads,
    cb_concurrent,
    \* history of the breaker: calls started, the last call that returned,
    \* failures recorded in closed since the last success, what was recorded
    \* since the last store of half_open, and what the last store of closed
    \* from record_success found recorded
    cb_calls, cb_last, cb_consec, cb_period, cb_close

cdVars == <<gpio_writes, modbus_writes, coil_writes,
            cd_last, cd_attempts, cd_conflicts, cd_was_reset, cd_calls>>
rlVars == <<windows, now, accepts>>
engVars == <<scripts, disk, pc, stack, scripts_to_run, reload_counter, ticks,
             horizon,
             gpio_handle, hw_requests, last_exec, runs, sticky, run_dispatched, dispatch_log,
             context, tick_context, startup_fired, startup_due, startup_runs>>
cbVars == <<cb_state, failure_count, success_count, last_failure, cb_lock, threads,
            cb_concurrent, cb_calls, cb_last, cb_consec, cb_period, cb_close>>
ctxVars == <<context, tick_context>>
trigVars == <<startup_fired, startup_due, startup_runs>>
\* the agent around the components
storeVars == <<dir, cmd_scripts, cmd_pc, cmd_last>>
lockVars == <<guards, task_pc>>
sysVars == <<main, storeVars, lockVars>>
\* the components outside the engine and its limiter
outVars == <<cbVars, cdVars, sysVars>>
vars == <<cdVars, rlVars, engVars, cbVars, sysVars>>

-----------------------------------------------------------------------------
(* Bounds of the model *)

\* ScriptLimits are configurable (ScriptEngine::with_limits); small values
\* keep the state space finite while every limit is still reached.
max_call_depth == 2
max_actions_per_run == 2
rate_limit_per_minute == 5
\* the limit the limiter of SpecRL is constructed with (ScriptRateLimiter::new)
default_limit == 2
\* top-level executions started over a behaviour
MaxRuns == 3
\* the clock of SpecRL stops advancing here (seconds)
MaxNow == 90
\* passes of the engine loop over a behaviour
MaxTicks == 2
\* ConflictDetector calls between two resets
MaxAttempts == 3
\* ScriptRateLimiter::check calls per window in SpecRL beyond the limit
MaxOverLimit == 1

\* calls of the circuit breaker over a behaviour
MaxCalls == 6
\* ScriptLimits.max_delay_ms
max_delay_ms == 2
\* CircuitBreaker::new(name, failure_threshold, recovery_timeout): the threshold
failure_threshold == 2

(* Program constants *)
\* action.delay_ms.unwrap_or(1000)
DefaultDelayMs == 1000
\* the recovery timeout in seconds, as the breaker's tests construct it
recovery_timeout == 30
success_threshold == 2
RateWindowSecs == 60
ErrorThreshold == 5
ReloadTicks == 30

\* the number of values of a u16
U16Modulus == 65536
ScriptIds == {"A", "B"}
Pins == {7, 17}
\* the steps of the clock in SpecRL (seconds)
AdvanceSteps == {20, 30}
Devices == {"PLC-1"}
Addresses == {100}
U16Values == {1234, 5678}
RegKeys == Devices \X Addresses

EmptyMap == [x \in {} |-> 0]

\* map with key k bound to v (HashMap::insert)
Insert(m, k, v) == [x \in (DOMAIN m) \cup {k} |-> IF x = k THEN v ELSE m[x]]

-----------------------------------------------------------------------------
(* ConflictDetector *)

NoConflict == [kind |-> "NoConflict", message |-> <<>>]
Duplicate == [kind |-> "Duplicate", message |-> <<>>]
Conflict(msg) == [kind |-> "Conflict", message |-> msg]

PendingWrite(script_id, value) == [script_id |-> script_id, value |-> value]

Level(v) == IF v THEN "HIGH" ELSE "LOW"

\* a mis-ordered check: the value test before the same-script test
check_gpio_write_value_first(writes, script_id, pin, value) ==
    LET new_write == PendingWrite(script_id, value) IN
    IF pin \in DOMAIN writes
    THEN LET existing == writes[pin] IN
         IF existing.value = value
         THEN [result |-> Duplicate, writes |-> writes]
         ELSE IF existing.script_id = script_id
         THEN [result |-> NoConflict, writes |-> Insert(writes, pin, new_write)]
         ELSE [result |-> Conflict(<<"GPIO CONFLICT", pin, script_id, Level(value),
                                     existing.script_id, Level(existing.value)>>),
               writes |-> Insert(writes, pin, new_write)]
    ELSE [result |-> NoConflict, writes |-> Insert(writes, pin, new_write)]

\* ConflictDetector::check_gpio_write: the result and the new gpio_writes
check_gpio_write(writes, script_id, pin, value) ==
    LET new_write == PendingWrite(script_id, value) IN
    IF pin \in DOMAIN writes
    THEN LET existing == writes[pin] IN
         IF existing.script_id = script_id
         THEN [result |-> NoConflict, writes |-> Insert(writes, pin, new_write)]
         ELSE IF existing.value = value
         THEN [result |-> Duplicate, writes |-> writes]
         ELSE [result |-> Conflict(<<"GPIO CONFLICT", pin, script_id, Level(value),
                                     existing.script_id, Level(existing.value)>>),
               writes |-> Insert(writes, pin, new_write)]
    ELSE [result |-> NoConflict, writes |-> Insert(writes, pin, new_write)]

\* ConflictDetector::check_modbus_write
check_modbus_write(writes, script_id, device, address, value) ==
    LET key == <<device, address>>
        new_write == PendingWrite(script_id, value) IN
    IF key \in DOMAIN writes
    THEN LET existing == writes[key] IN
         IF existing.script_id = script_id
         THEN [result |-> NoConflict, writes |-> Insert(writes, key, new_write)]
         ELSE IF existing.value = value
         THEN [result |-> Duplicate, writes |-> writes]
         ELSE [result |-> Conflict(<<"MODBUS CONFLICT", key, script_id, value,
                                     existing.script_id, existing.value>>),
               writes |-> Insert(writes, key, new_write)]
    ELSE [result |-> NoConflict, writes |-> Insert(writes, key, new_write)]

\* ConflictDetector::check_coil_write
check_coil_write(writes, script_id, device, address, value) ==
    LET key == <<device, address>>
        new_write == PendingWrite(script_id, value) IN
    IF key \in DOMAIN writes
    THEN LET existing == writes[key] IN
         IF existing.script_id = script_id
         THEN [result |-> NoConflict, writes |-> Insert(writes, key, new_write)]
         ELSE IF existing.value = value
         THEN [result |-> Duplicate, writes |-> writes]
         ELSE [result |-> Conflict(<<"COIL CONFLICT", key, script_id, value,
                                     existing.script_id, existing.value>>),
               writes |-> Insert(writes, key, new_write)]
    ELSE [result |-> NoConflict, writes |-> Insert(writes, key, new_write)]

\* the record of one call: what was asked, what was pending, what came back
CallRecord(table, key, script_id, value, writes, result) ==
    [called |-> TRUE, table |-> table, key |-> <<key>>, script_id |-> script_id,
     value |-> <<value>>,
     prior |-> IF key \in DOMAIN writes THEN <<writes[key]>> ELSE <<>>,
     first |-> ~(\E a \in cd_attempts : a[1] = table /\ a[2] = <<key>>),
     after_reset |-> cd_was_reset,
     result |-> result]

NoCall == [called |-> FALSE, table |-> "", key |-> <<>>, script_id |-> "",
           value |-> <<>>, prior |-> <<>>, first |-> FALSE, after_reset |-> FALSE,
           result |-> NoConflict]

Logged(table, key, script_id, value, writes, r) ==
    /\ cd_last' = CallRecord(table, key, script_id, value, writes, r.result)
    /\ cd_attempts' = cd_attempts \cup {<<table, <<key>>, script_id, <<value>>>>}
    /\ cd_conflicts' = IF r.result.kind = "Conflict"
                       THEN cd_conflicts \cup {<<table, <<key>>>>}
                       ELSE cd_conflicts
    /\ cd_calls' = cd_calls + 1
    /\ UNCHANGED cd_was_reset

CDInit ==
    /\ gpio_writes = EmptyMap
    /\ modbus_writes = EmptyMap
    /\ coil_writes = EmptyMap
    /\ cd_last = NoCall
    /\ cd_attempts = {}
    /\ cd_conflicts = {}
    /\ cd_was_reset = FALSE
    /\ cd_calls = 0

CheckGpioWrite(script_id, pin, value) ==
    LET r == check_gpio_write(gpio_writes, script_id, pin, value) IN
    /\ cd_calls < MaxAttempts
    /\ gpio_writes' = r.writes
    /\ Logged("gpio", pin, script_id, value, gpio_writes, r)
    /\ UNCHANGED <<modbus_writes, coil_writes, rlVars, engVars, cbVars, sysVars>>

CheckModbusWrite(script_id, device, address, value) ==
    LET r == check_modbus_write(modbus_writes, script_id, device, address, value) IN
    /\ cd_calls < MaxAttempts
    /\ modbus_writes' = r.writes
    /\ Logged("modbus", <<device, address>>, script_id, value, modbus_writes, r)
    /\ UNCHANGED <<gpio_writes, coil_writes, rlVars, engVars, cbVars, sysVars>>

CheckCoilWrite(script_id, device, address, value) ==
    LET r == check_coil_write(coil_writes, script_id, device, address, value) IN
    /\ cd_calls < MaxAttempts
    /\ coil_writes' = r.writes
    /\ Logged("coil", <<device, address>>, script_id, value, coil_writes, r)
    /\ UNCHANGED <<gpio_writes, modbus_writes, rlVars, engVars, cbVars, sysVars>>

\* ConflictDetector::reset
ResetDetector ==
    /\ gpio_writes' = EmptyMap
    /\ modbus_writes' = EmptyMap
    /\ coil_writes' = EmptyMap
    /\ cd_last' = NoCall
    /\ cd_attempts' = {}
    /\ cd_conflicts' = {}
    /\ cd_was_reset' = TRUE
    /\ cd_calls' = 0
    /\ UNCHANGED <<rlVars, engVars, cbVars, sysVars>>

-----------------------------------------------------------------------------
(* ScriptRateLimiter *)

RateLimitWindow(count, window_start) == [count |-> count, window_start |-> window_start]

\* ScriptRateLimiter::check at clock value t: the answer and the new windows.
\* count is an AtomicU32; the checks of one window stay far below 2^32 here,
\* so fetch_add never wraps.
check(w, script_id, t, limit) ==
    LET entry == IF script_id \in DOMAIN w THEN w[script_id] ELSE RateLimitWindow(0, t)
        rolled == IF t - entry.window_start >= RateWindowSecs
                  THEN RateLimitWindow(0, t) ELSE entry
        current == rolled.count
    IN [ok |-> current < limit,
        windows |-> Insert(w, script_id,
                      RateLimitWindow(current + 1, rolled.window_start))]

\* accepted checks that can still share a 60 s interval with a check made at t
Recent(times, t) == SelectSeq(times, LAMBDA x : t - x < RateWindowSecs)

RLInit ==
    /\ windows = EmptyMap
    /\ now = 0
    /\ accepts = [s \in ScriptIds |-> <<>>]

\* one call of rate_limiter.check(script_id)
RLCheck(script_id) ==
    LET r == check(windows, script_id, now, default_limit) IN
    /\ r.windows[script_id].count <= default_limit + MaxOverLimit
    /\ windows' = r.windows
    /\ accepts' = [accepts EXCEPT ![script_id] =
                     IF r.ok THEN Append(Recent(@, now), now) ELSE Recent(@, now)]
    /\ UNCHANGED <<now, cdVars, engVars, cbVars, sysVars>>

\* the clock advances by d seconds
RLAdvance(d) ==
    /\ now + d <= MaxNow
    /\ now' = now + d
    /\ UNCHANGED <<windows, accepts, cdVars, engVars, cbVars, sysVars>>

-----------------------------------------------------------------------------
(* Script definitions, ScriptStorage *)

Noop ==
    [action_type |-> "noop", target |-> <<>>, value |-> <<>>, script_id |-> <<>>,
     delay_ms |-> <<>>, condition |-> <<>>, variable |-> <<>>]
\* target: the pin when action.target parses as u8; value: the bool when present
SetGpio(target, value) ==
    [action_type |-> "set_gpio", target |-> target, value |-> value, script_id |-> <<>>,
     delay_ms |-> <<>>, condition |-> <<>>, variable |-> <<>>]
CallScript(id) ==
    [action_type |-> "call_script", target |-> <<>>, value |-> <<>>, script_id |-> <<id>>,
     delay_ms |-> <<>>, condition |-> <<>>, variable |-> <<>>]
Delay(ms) ==
    [action_type |-> "delay", target |-> <<>>, value |-> <<>>, script_id |-> <<>>,
     delay_ms |-> <<ms>>, condition |-> <<>>, variable |-> <<>>]
\* variable: action.target as the path of the variable it names
SetVariable(path, value) ==
    [action_type |-> "set_variable", target |-> <<>>, value |-> <<value>>,
     script_id |-> <<>>, delay_ms |-> <<>>, condition |-> <<>>, variable |-> <<path>>]
\* device and address as the action's options; value: the JSON number, an
\* integer here, when present
WriteModbus(device, address, value) ==
    [action_type |-> "write_modbus", target |-> <<>>, value |-> value,
     script_id |-> <<>>, delay_ms |-> <<>>, condition |-> <<>>, variable |-> <<>>,
     device |-> device, address |-> address]
\* action with the inline condition c
Guarded(action, c) == [action EXCEPT !.condition = <<c>>]

Condition(source, operator, value) ==
    [source |-> source, operator |-> operator, value |-> value]

\* triggers: the trigger types, a periodic one unless stated; conditions: none
\* unless stated
ScriptDefinition(id, enabled, actions, on_error) ==
    [id |-> id, enabled |-> enabled, triggers |-> <<"periodic">>, conditions |-> <<>>,
     actions |-> actions, on_error |-> on_error]

SelfRecursive(id) ==
    ScriptDefinition(id, TRUE, <<CallScript(id), CallScript(id)>>, <<>>)
Calls(id, other) ==
    ScriptDefinition(id, TRUE, <<CallScript(other), Noop>>, <<>>)
Writes(id, value, on_error) ==
    ScriptDefinition(id, TRUE, <<SetGpio(<<7>>, <<value>>)>>, on_error)
\* more actions than the quota allows
Long(id) ==
    ScriptDefinition(id, TRUE, [i \in 1..(max_actions_per_run + 3) |-> Noop], <<>>)
\* a failing first action and more error handlers than the quota leaves
Failing(id) ==
    ScriptDefinition(id, TRUE, <<SetGpio(<<>>, <<TRUE>>), Noop>>,
                     [i \in 1..(max_actions_per_run + 1) |-> Noop])

\* a delay above the allowed maximum, then an allowed one
Delays(id) ==
    ScriptDefinition(id, TRUE, <<Delay(max_delay_ms + 1), Delay(max_delay_ms)>>, <<>>)
\* one action more than the quota allows, all of which would succeed
OverByOne(id) ==
    ScriptDefinition(id, TRUE, [i \in 1..(max_actions_per_run + 1) |-> Noop], <<>>)
\* a script that runs only while a sensor condition holds
Conditional(id) ==
    [ScriptDefinition(id, TRUE, <<Noop>>, <<>>)
        EXCEPT !.conditions = <<Condition("sensor.water_ok", "eq", TRUE)>>]
\* a script that runs at startup
AtStartup(id) ==
    [ScriptDefinition(id, TRUE, <<Noop>>, <<>>) EXCEPT !.triggers = <<"startup">>]
\* a script that sets a variable
Sets(id) ==
    ScriptDefinition(id, TRUE, <<SetVariable("var.flag", TRUE)>>, <<>>)
\* a script that runs, and acts, only once the variable is set
OnFlag(id) ==
    [ScriptDefinition(id, TRUE,
                      <<Guarded(Noop, Condition("var.flag", "eq", TRUE)),
                        Guarded(Noop, Condition("var.flag", "ne", TRUE))>>, <<>>)
        EXCEPT !.conditions = <<Condition("var.flag", "eq", TRUE)>>]
\* a script whose actions carry inline conditions: a pin write when the sensor
\* reads true, a variable when it reads otherwise
GuardedActions(id) ==
    ScriptDefinition(id, TRUE,
        <<Guarded(SetGpio(<<7>>, <<TRUE>>), Condition("sensor.water_ok", "eq", TRUE)),
          Guarded(SetVariable("var.flag", TRUE), Condition("sensor.water_ok", "ne", TRUE))>>,
        <<>>)

\* a script that calls the same other script twice in one run
CallsTwice(id, other) ==
    ScriptDefinition(id, TRUE, <<CallScript(other), CallScript(other)>>, <<>>)
\* a script of one action that calls nothing
Leaf(id) ==
    ScriptDefinition(id, TRUE, <<Noop>>, <<>>)

\* the contents of the scripts directory the model starts from
Programs ==
    { [id \in ScriptIds |-> IF id = "A" THEN SelfRecursive("A")
                                         ELSE Writes("B", TRUE, <<Noop>>)],
      [id \in ScriptIds |-> IF id = "A" THEN Calls("A", "B") ELSE Calls("B", "A")],
      [id \in ScriptIds |-> IF id = "A" THEN Calls("A", "B") ELSE Long("B")],
      [id \in ScriptIds |-> Writes(id, TRUE, <<>>)],
      [id \in ScriptIds |-> Writes(id, id = "A", <<>>)],
      [id \in ScriptIds |-> IF id = "A" THEN Failing("A") ELSE Long("B")],
      [id \in ScriptIds |-> OverByOne(id)],
      [id \in ScriptIds |-> IF id = "A" THEN Calls("A", "B") ELSE Conditional("B")],
      [id \in {"A"} |-> Calls("A", "B")],
      [id \in {"A"} |-> Delays("A")],
      [id \in {"A"} |-> GuardedActions("A")],
      [id \in {"A"} |-> Calls("A", "A")],
      [id \in ScriptIds |-> IF id = "A" THEN CallsTwice("A", "B") ELSE Leaf("B")],
      [id \in ScriptIds |-> IF id = "A" THEN Sets("A") ELSE OnFlag("B")] }

\* the directory of the long-running specification
ReloadProgram ==
    [id \in ScriptIds |-> IF id = "A" THEN SelfRecursive("A")
                                       ELSE Writes("B", TRUE, <<Noop>>)]

\* ScriptStorage::load_script_file / add_script: the runtime record of a definition
Script(definition) ==
    [definition |-> definition,
     status |-> IF definition.enabled THEN "active" ELSE "paused",
     last_run |-> <<>>,
     last_result |-> <<>>,
     error_count |-> 0]

\* ScriptStorage::load_all: the map is cleared, then refilled from the directory
load_all(files, read_dir_ok) ==
    IF read_dir_ok THEN [id \in DOMAIN files |-> Script(files[id])] ELSE EmptyMap

\* ScriptStorage::get_active
get_active(ss) ==
    {id \in DOMAIN ss : ss[id].status = "active" /\ ss[id].definition.enabled}

\* a storage that counts one failure per run: a failure takes the script out of
\* "running", and only a running script's failure is counted
update_result_counts_run_once(ss, id, success, result) ==
    IF id \notin DOMAIN ss THEN ss
    ELSE IF success
    THEN [ss EXCEPT ![id].last_run = <<now>>, ![id].last_result = <<result>>,
                    ![id].error_count = 0,
                    ![id].status = IF @ = "running" THEN "active" ELSE @]
    ELSE [ss EXCEPT ![id].last_run = <<now>>, ![id].last_result = <<result>>,
                    ![id].error_count = IF ss[id].status = "running" THEN @ + 1 ELSE @,
                    ![id].status = IF ss[id].error_count + 1 >= ErrorThreshold
                                   THEN "error"
                                   ELSE IF @ = "running" THEN "active" ELSE @]

\* ScriptStorage::update_result; last_run is the clock reading Utc::now()
update_result(ss, id, success, result) ==
    IF id \notin DOMAIN ss THEN ss
    ELSE IF success
    THEN [ss EXCEPT ![id].last_run = <<now>>, ![id].last_result = <<result>>,
                    ![id].error_count = 0,
                    ![id].status = IF @ = "running" THEN "active" ELSE @]
    ELSE [ss EXCEPT ![id].last_run = <<now>>, ![id].last_result = <<result>>,
                    ![id].error_count = @ + 1,
                    ![id].status = IF ss[id].error_count + 1 >= ErrorThreshold
                                   THEN "error" ELSE @]

\* ScriptStorage::enable: the record and the {id}.json file
enable(ss, id) ==
    IF id \in DOMAIN ss
    THEN [ss EXCEPT ![id].definition.enabled = TRUE, ![id].status = "active"]
    ELSE ss

-----------------------------------------------------------------------------
(* ExecutionContext, results *)

ActionResult(success, action_type, message) ==
    [success |-> success, action_type |-> action_type, message |-> message]

ExecutionResult(script_id, success, actions_executed, actions_failed, results) ==
    [kind |-> "Ok", script_id |-> script_id, success |-> success,
     actions_executed |-> actions_executed, actions_failed |-> actions_failed,
     results |-> results]

\* Err(anyhow!("Script not found: {}"))
NotFound(script_id) ==
    [kind |-> "Err", script_id |-> script_id, success |-> FALSE,
     actions_executed |-> 0, actions_failed |-> 0, results |-> <<>>]

NoResult ==
    [kind |-> "None", script_id |-> "", success |-> FALSE,
     actions_executed |-> 0, actions_failed |-> 0, results |-> <<>>]

\* ExecutionContext::new; late: start_time.elapsed() > max_execution_time was
\* observed (it stays true once observed)
ExecutionContext == [actions_executed |-> 0, late |-> FALSE]

\* the values a later reading of is_time_exceeded may give
LateChoices(late) == IF late THEN {TRUE} ELSE {FALSE, TRUE}

\* a context whose counter never moves
record_action_no_count(ctx, late) ==
    IF late THEN [err |-> "TimeExceeded", ctx |-> [ctx EXCEPT !.late = TRUE]]
    ELSE [err |-> "", ctx |-> ctx]

\* a quota that lets one action more through
record_action_inclusive(ctx, late) ==
    IF late THEN [err |-> "TimeExceeded", ctx |-> [ctx EXCEPT !.late = TRUE]]
    ELSE IF ctx.actions_executed > max_actions_per_run
    THEN [err |-> "ActionLimitExceeded", ctx |-> ctx]
    ELSE [err |-> "", ctx |-> [ctx EXCEPT !.actions_executed = @ + 1]]

\* ExecutionContext::record_action, with the clock reading it makes
record_action(ctx, late) ==
    IF late THEN [err |-> "TimeExceeded", ctx |-> [ctx EXCEPT !.late = TRUE]]
    ELSE IF ctx.actions_executed >= max_actions_per_run
    THEN [err |-> "ActionLimitExceeded", ctx |-> ctx]
    ELSE [err |-> "", ctx |-> [ctx EXCEPT !.actions_executed = @ + 1]]

-----------------------------------------------------------------------------
(* ScriptEngine::execute_with_depth *)

Frame(script_id, depth, definition) ==
    [script_id |-> script_id, depth |-> depth, definition |-> definition,
     phase |-> "actions", idx |-> 1, exec_ctx |-> ExecutionContext,
     actions_executed |-> 0, actions_failed |-> 0, results |-> <<>>]

\* exit tests that enter the on_error loop whether or not an action failed
Settle_on_error_always(f) ==
    IF f.phase = "actions" /\ f.idx > Len(f.definition.actions)
    THEN IF f.definition.on_error # <<>>
         THEN [f EXCEPT !.phase = "on_error", !.idx = 1]
         ELSE [f EXCEPT !.phase = "done"]
    ELSE IF f.phase = "on_error" /\ f.idx > Len(f.definition.on_error)
    THEN [f EXCEPT !.phase = "done"]
    ELSE f

\* the position after the loops' exit tests (engine.rs 300, 335, 336)
Settle(f) ==
    IF f.phase = "actions" /\ f.idx > Len(f.definition.actions)
    THEN IF f.actions_failed > 0 /\ f.definition.on_error # <<>>
         THEN [f EXCEPT !.phase = "on_error", !.idx = 1]
         ELSE [f EXCEPT !.phase = "done"]
    ELSE IF f.phase = "on_error" /\ f.idx > Len(f.definition.on_error)
    THEN [f EXCEPT !.phase = "done"]
    ELSE f

\* the loop body's tail: count and push one action's result (engine.rs 325-331,
\* 342)
AfterResult(f, r) ==
    IF f.phase = "actions"
    THEN Settle([f EXCEPT !.results = Append(@, r), !.idx = @ + 1,
                          !.actions_executed = IF r.success THEN @ + 1 ELSE @,
                          !.actions_failed = IF r.success THEN @ ELSE @ + 1])
    ELSE Settle([f EXCEPT !.results = Append(@, r), !.idx = @ + 1])

\* a limit that leaves the loop where it is, to try the same action again
BreakWith_retry(f, r) == f

\* break out of the primary loop with a failure result (engine.rs 302-321)
BreakWith(f, r) ==
    Settle([f EXCEPT !.results = Append(@, r), !.actions_failed = @ + 1,
                     !.idx = Len(f.definition.actions) + 1])

\* a depth check that lets one frame too many in
depth_exceeded_off_by_one(depth) == depth > max_call_depth

\* engine.rs 230
depth_exceeded(depth) == depth >= max_call_depth

\* ScriptContext::get_value: the value at a path, if any
get_value(ctx, path) == IF path \in DOMAIN ctx THEN <<ctx[path]>> ELSE <<>>

\* ScriptContext::set_variable
set_variable(ctx, path, value) == Insert(ctx, path, value)

\* ScriptEngine::compare_values on booleans (engine.rs 424-430)
compare_values(left, op, right) ==
    CASE op = "eq" -> left = right
      [] op = "ne" -> left # right
      [] OTHER -> FALSE

\* a condition that passes when its source is not in the context
evaluate_condition_missing_passes(ctx, condition) ==
    LET v == get_value(ctx, condition.source) IN
    IF v = <<>> THEN TRUE
    ELSE compare_values(v[1], condition.operator, condition.value)

\* ScriptEngine::evaluate_condition (engine.rs 377-387)
evaluate_condition(ctx, condition) ==
    LET v == get_value(ctx, condition.source) IN
    IF v = <<>> THEN FALSE
    ELSE compare_values(v[1], condition.operator, condition.value)

\* conditions that never hold a script back
evaluate_conditions_ignored(ctx, conditions) == TRUE

\* ScriptEngine::evaluate_conditions (engine.rs 367-375)
evaluate_conditions(ctx, conditions) ==
    \A k \in 1..Len(conditions) : evaluate_condition(ctx, conditions[k])

\* the answer of evaluate_conditions for script_id at engine.rs 276, against
\* the engine's context as it is now
ConditionsMet(script_id) ==
    IF script_id \in DOMAIN scripts
    THEN {evaluate_conditions(context, scripts[script_id].definition.conditions)}
    ELSE {TRUE}

\* an entry that books a rate-limit rejection as a failed run of the script
Entry_rejection_is_failed_run(script_id, depth, met) ==
    IF depth >= max_call_depth
    THEN [outcome |-> "depth", windows |-> windows, scripts |-> scripts,
          result |-> ExecutionResult(script_id, FALSE, 0, 1,
                       <<ActionResult(FALSE, "call_script",
                                      <<"Max call depth exceeded", max_call_depth>>)>>)]
    ELSE LET r == check(windows, script_id, now, rate_limit_per_minute) IN
         IF ~r.ok
         THEN [outcome |-> "rate", windows |-> r.windows,
               scripts |-> update_result(scripts, script_id, FALSE,
                                         <<"Rate limit exceeded">>),
               result |-> ExecutionResult(script_id, FALSE, 0, 1,
                            <<ActionResult(FALSE, "noop",
                                <<"Rate limit exceeded", rate_limit_per_minute>>)>>)]
         ELSE IF script_id \notin DOMAIN scripts
         THEN [outcome |-> "missing", windows |-> r.windows, scripts |-> scripts,
               result |-> NotFound(script_id)]
         ELSE IF ~met
         THEN [outcome |-> "skipped", windows |-> r.windows,
               scripts |-> update_result(
                             [scripts EXCEPT ![script_id].status = "running"],
                             script_id, TRUE, <<"Conditions not met - skipped">>),
               result |-> ExecutionResult(script_id, TRUE, 0, 0, <<>>)]
         ELSE [outcome |-> "frame", windows |-> r.windows,
               scripts |-> [scripts EXCEPT ![script_id].status = "running"],
               result |-> NoResult]

\* an entry that books the depth rejection as a failed run and takes a slot of
\* the rate limiter for it
Entry_depth_rejection_booked(script_id, depth, met) ==
    IF depth_exceeded(depth)
    THEN [outcome |-> "depth",
          windows |-> check(windows, script_id, now, rate_limit_per_minute).windows,
          scripts |-> update_result(scripts, script_id, FALSE,
                                    <<"Max call depth exceeded">>),
          result |-> ExecutionResult(script_id, FALSE, 0, 1,
                       <<ActionResult(FALSE, "call_script",
                                      <<"Max call depth exceeded", max_call_depth>>)>>)]
    ELSE LET r == check(windows, script_id, now, rate_limit_per_minute) IN
         IF ~r.ok
         THEN [outcome |-> "rate", windows |-> r.windows, scripts |-> scripts,
               result |-> ExecutionResult(script_id, FALSE, 0, 1,
                            <<ActionResult(FALSE, "noop",
                                <<"Rate limit exceeded", rate_limit_per_minute>>)>>)]
         ELSE IF script_id \notin DOMAIN scripts
         THEN [outcome |-> "missing", windows |-> r.windows, scripts |-> scripts,
               result |-> NotFound(script_id)]
         ELSE IF ~met
         THEN [outcome |-> "skipped", windows |-> r.windows,
               scripts |-> update_result(
                             [scripts EXCEPT ![script_id].status = "running"],
                             script_id, TRUE, <<"Conditions not met - skipped">>),
               result |-> ExecutionResult(script_id, TRUE, 0, 0, <<>>)]
         ELSE [outcome |-> "frame", windows |-> r.windows,
               scripts |-> [scripts EXCEPT ![script_id].status = "running"],
               result |-> NoResult]

\* an entry that looks the script up before it asks the rate limiter, so a
\* call of a script that is not stored takes no slot
Entry_lookup_before_check(script_id, depth, met) ==
    IF depth_exceeded(depth)
    THEN [outcome |-> "depth", windows |-> windows, scripts |-> scripts,
          result |-> ExecutionResult(script_id, FALSE, 0, 1,
                       <<ActionResult(FALSE, "call_script",
                                      <<"Max call depth exceeded", max_call_depth>>)>>)]
    ELSE IF script_id \notin DOMAIN scripts
    THEN [outcome |-> "missing", windows |-> windows, scripts |-> scripts,
          result |-> NotFound(script_id)]
    ELSE LET r == check(windows, script_id, now, rate_limit_per_minute) IN
         IF ~r.ok
         THEN [outcome |-> "rate", windows |-> r.windows, scripts |-> scripts,
               result |-> ExecutionResult(script_id, FALSE, 0, 1,
                            <<ActionResult(FALSE, "noop",
                                <<"Rate limit exceeded", rate_limit_per_minute>>)>>)]
         ELSE IF ~met
         THEN [outcome |-> "skipped", windows |-> r.windows,
               scripts |-> update_result(
                             [scripts EXCEPT ![script_id].status = "running"],
                             script_id, TRUE, <<"Conditions not met - skipped">>),
               result |-> ExecutionResult(script_id, TRUE, 0, 0, <<>>)]
         ELSE [outcome |-> "frame", windows |-> r.windows,
               scripts |-> [scripts EXCEPT ![script_id].status = "running"],
               result |-> NoResult]

\* execute_with_depth up to the first action (engine.rs 227-293): the outcome,
\* the limiter and the storage it leaves, and the result or the frame; met is
\* the answer of evaluate_conditions
Entry(script_id, depth, met) ==
    IF depth_exceeded(depth)
    THEN [outcome |-> "depth", windows |-> windows, scripts |-> scripts,
          result |-> ExecutionResult(script_id, FALSE, 0, 1,
                       <<ActionResult(FALSE, "call_script",
                                      <<"Max call depth exceeded", max_call_depth>>)>>)]
    ELSE LET r == check(windows, script_id, now, rate_limit_per_minute) IN
         IF ~r.ok
         THEN [outcome |-> "rate", windows |-> r.windows, scripts |-> scripts,
               result |-> ExecutionResult(script_id, FALSE, 0, 1,
                            <<ActionResult(FALSE, "noop",
                                <<"Rate limit exceeded", rate_limit_per_minute>>)>>)]
         ELSE IF script_id \notin DOMAIN scripts
         THEN [outcome |-> "missing", windows |-> r.windows, scripts |-> scripts,
               result |-> NotFound(script_id)]
         ELSE IF ~met
         THEN [outcome |-> "skipped", windows |-> r.windows,
               scripts |-> update_result(
                             [scripts EXCEPT ![script_id].status = "running"],
                             script_id, TRUE, <<"Conditions not met - skipped">>),
               result |-> ExecutionResult(script_id, TRUE, 0, 0, <<>>)]
         ELSE [outcome |-> "frame", windows |-> r.windows,
               scripts |-> [scripts EXCEPT ![script_id].status = "running"],
               result |-> NoResult]

\* a caller that takes an error of the inner execute for a completed call
CallResult_error_is_success(script_id, next_depth, res) ==
    IF res.kind = "Err" \/ res.success
    THEN ActionResult(TRUE, "call_script", <<"Called script", script_id, next_depth>>)
    ELSE ActionResult(FALSE, "call_script",
            <<"Script failed", script_id,
              IF res.results # <<>> THEN res.results[1].message
              ELSE <<"Unknown error">> >>)

\* action_call_script_with_depth after the inner execute returned (engine.rs
\* 692-716)
CallResult(script_id, next_depth, res) ==
    IF res.kind = "Err"
    THEN ActionResult(FALSE, "call_script", <<"Failed to call script", script_id>>)
    ELSE IF res.success
    THEN ActionResult(TRUE, "call_script", <<"Called script", script_id, next_depth>>)
    ELSE ActionResult(FALSE, "call_script",
            <<"Script failed", script_id,
              IF res.results # <<>> THEN res.results[1].message
              ELSE <<"Unknown error">> >>)

Top == stack[Len(stack)]
SetTop(f) == [stack EXCEPT ![Len(stack)] = f]

\* the frame goes on with result r of an action that called nothing
Local(f, r) ==
    /\ stack' = SetTop(AfterResult(f, r))
    /\ UNCHANGED <<scripts, windows, hw_requests, context>>

\* action_set_gpio (engine.rs 472-503)
action_set_gpio(f, action) ==
    IF action.target = <<>>
    THEN Local(f, ActionResult(FALSE, "set_gpio", <<"Invalid pin number">>))
    ELSE IF action.value = <<>>
    THEN Local(f, ActionResult(FALSE, "set_gpio", <<"Missing or invalid value">>))
    ELSE IF ~gpio_handle
    THEN Local(f, ActionResult(FALSE, "set_gpio", <<"GPIO not available">>))
    ELSE \E ok \in BOOLEAN :
           LET pin == action.target[1]
               value == action.value[1]
               r == IF ok
                    THEN ActionResult(TRUE, "set_gpio", <<"Set GPIO", pin, Level(value)>>)
                    ELSE ActionResult(FALSE, "set_gpio", <<"Failed">>)
           IN /\ stack' = SetTop(AfterResult(f, r))
              /\ hw_requests' =
                   IF pc = "tick"
                   THEN Append(hw_requests,
                               [actor |-> "gpio", key |-> pin, value |-> value,
                                script_id |-> f.script_id, success |-> ok,
                                message |-> r.message])
                   ELSE hw_requests
              /\ UNCHANGED <<scripts, windows, context>>

\* serde_json's Value::as_u64 on an optional JSON integer: the number when it
\* is not negative
as_u64(value) == IF value # <<>> /\ value[1] >= 0 THEN value ELSE <<>>

\* a cast that clamps to the largest u16
as_u16_saturating(v) == IF v >= U16Modulus THEN U16Modulus - 1 ELSE v

\* the cast `v as u16` of a u64: the low 16 bits (engine.rs 518, commands.rs
\* 474, 484)
as_u16(v) == v % U16Modulus

\* action_write_modbus (engine.rs 506-544); whether AppState.modbus_handle is
\* Some, and the answer of the Modbus actor, are chosen at the call
action_write_modbus(f, action) ==
    IF action.device = <<>>
    THEN Local(f, ActionResult(FALSE, "write_modbus", <<"Missing device name">>))
    ELSE IF action.address = <<>>
    THEN Local(f, ActionResult(FALSE, "write_modbus", <<"Missing register address">>))
    ELSE IF as_u64(action.value) = <<>>
    THEN Local(f, ActionResult(FALSE, "write_modbus", <<"Missing or invalid value">>))
    ELSE \E handle \in BOOLEAN :
         IF ~handle
         THEN Local(f, ActionResult(FALSE, "write_modbus", <<"Modbus not available">>))
         ELSE \E ok \in BOOLEAN :
                LET device == action.device[1]
                    address == action.address[1]
                    value == as_u16(as_u64(action.value)[1])
                    r == IF ok
                         THEN ActionResult(TRUE, "write_modbus",
                                           <<"Wrote", value, device, address>>)
                         ELSE ActionResult(FALSE, "write_modbus", <<"Failed">>)
                IN /\ stack' = SetTop(AfterResult(f, r))
                   /\ hw_requests' =
                        IF pc = "tick"
                        THEN Append(hw_requests,
                                    [actor |-> "modbus", key |-> <<device, address>>,
                                     value |-> value, script_id |-> f.script_id,
                                     success |-> ok, message |-> r.message])
                        ELSE hw_requests
                   /\ UNCHANGED <<scripts, windows, context>>

\* action_call_script_with_depth (engine.rs 680-692) and the callee's entry
action_call_script_with_depth(f, action) ==
    IF action.script_id = <<>>
    THEN Local(f, ActionResult(FALSE, "call_script", <<"Missing script_id">>))
    ELSE \E met \in ConditionsMet(action.script_id[1]) :
         LET script_id == action.script_id[1]
             next_depth == f.depth + 1
             e == Entry(script_id, next_depth, met)
         IN /\ windows' = e.windows
            /\ scripts' = e.scripts
            /\ UNCHANGED <<hw_requests, context>>
            /\ IF e.outcome = "frame"
               THEN stack' = Append(SetTop(f),
                               Settle(Frame(script_id, next_depth,
                                            scripts[script_id].definition)))
               ELSE stack' = SetTop(AfterResult(f,
                               CallResult(script_id, next_depth, e.result)))

\* action_delay (engine.rs 644-658); the sleep itself returns
action_delay(f, action) ==
    LET delay_ms == IF action.delay_ms = <<>> THEN DefaultDelayMs ELSE action.delay_ms[1]
    IN IF delay_ms > max_delay_ms
       THEN Local(f, ActionResult(FALSE, "delay",
                        <<"Delay exceeds maximum allowed", delay_ms, max_delay_ms>>))
       ELSE Local(f, ActionResult(TRUE, "delay", <<"Delayed", delay_ms>>))

\* action_set_variable (engine.rs 617-629)
action_set_variable(f, action) ==
    IF action.value = <<>>
    THEN Local(f, ActionResult(FALSE, "set_variable", <<"Missing value">>))
    ELSE /\ context' = set_variable(context, action.variable[1], action.value[1])
         /\ stack' = SetTop(AfterResult(f,
                ActionResult(TRUE, "set_variable",
                             <<"Set", action.variable[1], action.value[1]>>)))
         /\ UNCHANGED <<scripts, windows, hw_requests>>

\* execute_action_with_depth (engine.rs 442-469)
execute_action_with_depth(f, action) ==
    /\ run_dispatched' = run_dispatched + 1
    /\ dispatch_log' = dispatch_log \cup {<<f.script_id, f.depth>>}
    /\ IF action.condition # <<>> /\ ~evaluate_condition(context, action.condition[1])
       THEN Local(f, ActionResult(TRUE, "noop", <<"Condition not met - skipped">>))
       ELSE CASE action.action_type = "set_gpio" -> action_set_gpio(f, action)
              [] action.action_type = "call_script" ->
                    action_call_script_with_depth(f, action)
              [] action.action_type = "delay" -> action_delay(f, action)
              [] action.action_type = "write_modbus" -> action_write_modbus(f, action)
              [] action.action_type = "set_variable" -> action_set_variable(f, action)
              [] OTHER -> Local(f, ActionResult(TRUE, "noop", <<"No operation">>))
    /\ tick_context' = IF pc = "tick" THEN tick_context ELSE context'

NoDispatch ==
    UNCHANGED <<scripts, windows, hw_requests, run_dispatched, dispatch_log,
                context, tick_context>>

\* one iteration of the primary loop (engine.rs 300-332)
StepAction ==
    /\ pc # "stopped"
    /\ stack # <<>>
    /\ Top.phase = "actions"
    /\ LET f == Top
           action == f.definition.actions[f.idx]
       IN \E late1 \in LateChoices(f.exec_ctx.late) :
            IF late1
            THEN /\ stack' = SetTop(BreakWith([f EXCEPT !.exec_ctx.late = TRUE],
                       ActionResult(FALSE, "noop", <<"Execution time limit exceeded">>)))
                 /\ NoDispatch
            ELSE \E late2 \in LateChoices(late1) :
                   LET rec == record_action(f.exec_ctx, late2)
                       g == [f EXCEPT !.exec_ctx = rec.ctx]
                   IN IF rec.err = "ActionLimitExceeded"
                      THEN /\ stack' = SetTop(BreakWith(g,
                                 ActionResult(FALSE, "noop",
                                   <<"Action limit exceeded", max_actions_per_run>>)))
                           /\ NoDispatch
                      ELSE execute_action_with_depth(g, action)
    /\ UNCHANGED <<outVars, trigVars, now, accepts, disk, pc, scripts_to_run, reload_counter,
                   ticks, horizon, gpio_handle, last_exec, runs, sticky>>

\* one iteration of the on_error loop (engine.rs 336-343)
StepOnError ==
    /\ pc # "stopped"
    /\ stack # <<>>
    /\ Top.phase = "on_error"
    /\ LET f == Top
           action == f.definition.on_error[f.idx]
       IN \E late \in LateChoices(f.exec_ctx.late) :
            LET rec == record_action(f.exec_ctx, late)
                g == [f EXCEPT !.exec_ctx = rec.ctx]
            IN IF rec.err # ""
               THEN /\ stack' = SetTop([g EXCEPT !.phase = "done"])
                    /\ NoDispatch
               ELSE execute_action_with_depth(g, action)
    /\ UNCHANGED <<outVars, trigVars, now, accepts, disk, pc, scripts_to_run, reload_counter,
                   ticks, horizon, gpio_handle, last_exec, runs, sticky>>

\* the end of execute_with_depth (engine.rs 346-363) and the return to the
\* caller: the call_script action of the frame below, or the top-level caller
Finish ==
    /\ pc # "stopped"
    /\ stack # <<>>
    /\ Top.phase = "done"
    /\ LET f == Top
           success == f.actions_failed = 0
           result_msg == IF success THEN <<"Completed", f.actions_executed>>
                         ELSE <<"actions failed", f.actions_failed>>
           res == ExecutionResult(f.script_id, success, f.actions_executed,
                                  f.actions_failed, f.results)
           ss == update_result(scripts, f.script_id, success, result_msg)
       IN /\ scripts' = ss
          /\ sticky' = IF f.script_id \in DOMAIN ss /\ ~success
                          /\ ss[f.script_id].error_count >= ErrorThreshold
                       THEN sticky \cup {f.script_id} ELSE sticky
          /\ IF Len(stack) = 1
             THEN /\ stack' = <<>>
                  /\ last_exec' = res
                  /\ pc' = IF pc = "api" THEN "idle" ELSE pc
                  /\ run_dispatched' = 0
                  /\ dispatch_log' = {}
             ELSE LET parent == stack[Len(stack) - 1]
                      p == [parent EXCEPT !.exec_ctx.late = @ \/ f.exec_ctx.late]
                  IN /\ stack' = Append(SubSeq(stack, 1, Len(stack) - 2),
                                   AfterResult(p, CallResult(f.script_id, f.depth, res)))
                     /\ UNCHANGED <<last_exec, pc, run_dispatched, dispatch_log>>
    /\ UNCHANGED <<outVars, ctxVars, trigVars, rlVars, disk, scripts_to_run, reload_counter,
                   ticks, horizon, gpio_handle, hw_requests, runs>>

-----------------------------------------------------------------------------
(* ScriptEngine::run, the public API *)

RECURSIVE Orders(_)
\* the orders in which a HashMap may yield any of the scripts of S
Orders(S) ==
    {<<>>} \cup UNION {{<<x>> \o o : o \in Orders(S \ {x})} : x \in S}

\* the top-level caller enters execute_with_depth(script_id, 0)
Begin(script_id, caller) ==
    \E met \in ConditionsMet(script_id) :
    LET e == Entry(script_id, 0, met) IN
    /\ windows' = e.windows
    /\ scripts' = e.scripts
    /\ run_dispatched' = 0
    /\ dispatch_log' = {}
    /\ IF e.outcome = "frame"
       THEN /\ stack' = <<Settle(Frame(script_id, 0, scripts[script_id].definition))>>
            /\ last_exec' = NoResult
            /\ pc' = caller
       ELSE /\ stack' = <<>>
            /\ last_exec' = e.result
            /\ UNCHANGED pc

\* the script's trigger is the startup trigger (the scripts of the model carry
\* one trigger each)
HasStartup(definition) ==
    \E k \in 1..Len(definition.triggers) : definition.triggers[k] = "startup"

\* TriggerManager::check_trigger for a startup trigger: true on the first call
\* for the script, false afterwards
check_startup_trigger(fired, script_id) ==
    [fires |-> script_id \notin fired, fired |-> fired \cup {script_id}]

\* what the Modbus actor's read_all may deliver in a pass: nothing (no handle,
\* no device answering) or a value of the sensor
SensorReadings ==
    {EmptyMap, [path \in {"sensor.water_ok"} |-> TRUE]}

\* ScriptEngine::update_context (engine.rs 151-186): set_sensor for every value
\* read
update_context(ctx, readings) ==
    [path \in DOMAIN ctx \cup DOMAIN readings |->
        IF path \in DOMAIN readings THEN readings[path] ELSE ctx[path]]

\* The passes of the loop are one second apart and MaxTicks of them span less
\* than RateWindowSecs, so the limiter's clock reads the same window throughout
\* a behaviour of Spec: now is left alone here and moves in SpecRL.
\* ScriptEngine::run, one pass of the loop up to the list of scripts to run
\* (engine.rs 117-137): the interval fires, the 30th pass reloads the storage,
\* the triggers pick scripts among the active ones
Tick ==
    /\ pc = "idle"
    /\ main = "running"
    /\ ticks < horizon
    /\ ticks' = ticks + 1
    /\ LET counter == reload_counter + 1 IN
       \E read_dir_ok \in BOOLEAN :
         LET ss == IF counter >= ReloadTicks THEN load_all(disk, read_dir_ok) ELSE scripts
         IN /\ counter < ReloadTicks => read_dir_ok
            /\ reload_counter' = IF counter >= ReloadTicks THEN 0 ELSE counter
            /\ scripts' = ss
            /\ \E order \in Orders(get_active(ss)) :
                 /\ runs + Len(order) <= MaxRuns
                 /\ \A id \in get_active(ss) :
                      HasStartup(ss[id].definition) =>
                         ((\E k \in 1..Len(order) : order[k] = id)
                             <=> check_startup_trigger(startup_fired, id).fires)
                 /\ scripts_to_run' = order
                 /\ runs' = runs + Len(order)
                 /\ startup_due' = {id \in get_active(ss) :
                                      HasStartup(ss[id].definition)
                                      /\ check_startup_trigger(startup_fired, id).fires}
                 /\ startup_fired' =
                      startup_fired \cup {id \in get_active(ss) :
                                             HasStartup(ss[id].definition)}
    /\ UNCHANGED startup_runs
    /\ \E readings \in SensorReadings : context' = update_context(context, readings)
    /\ tick_context' = context'
    /\ pc' = "tick"
    /\ hw_requests' = <<>>
    /\ last_exec' = NoResult
    /\ UNCHANGED <<outVars, rlVars, disk, stack, gpio_handle, horizon,
                   sticky, run_dispatched, dispatch_log>>

\* the loop over scripts_to_run (engine.rs 140-146)
StartTriggered ==
    /\ pc = "tick"
    /\ stack = <<>>
    /\ scripts_to_run # <<>>
    /\ scripts_to_run' = Tail(scripts_to_run)
    /\ Begin(Head(scripts_to_run), "tick")
    /\ startup_due' = startup_due \ {Head(scripts_to_run)}
    /\ startup_runs' = IF Head(scripts_to_run) \in startup_due
                       THEN [startup_runs EXCEPT ![Head(scripts_to_run)] = @ + 1]
                       ELSE startup_runs
    /\ UNCHANGED <<outVars, ctxVars, startup_fired, now, accepts, disk, reload_counter, ticks, horizon,
                   gpio_handle, hw_requests, runs, sticky>>

\* back to interval.tick().await
EndTick ==
    /\ pc = "tick"
    /\ stack = <<>>
    /\ scripts_to_run = <<>>
    /\ pc' = "idle"
    /\ hw_requests' = <<>>
    /\ last_exec' = NoResult
    /\ tick_context' = context
    /\ UNCHANGED <<outVars, trigVars, rlVars, scripts, disk, stack, scripts_to_run,
                   reload_counter, ticks, horizon, gpio_handle, runs,
                   sticky, run_dispatched, dispatch_log, context>>

\* ScriptEngine::execute_script (engine.rs 215-217)
ExecuteScript(script_id) ==
    /\ pc = "idle"
    /\ runs < MaxRuns
    /\ runs' = runs + 1
    /\ Begin(script_id, "api")
    /\ UNCHANGED <<outVars, ctxVars, trigVars, now, accepts, disk, scripts_to_run, reload_counter,
                   ticks, horizon, gpio_handle, hw_requests, sticky>>

\* ScriptEngine::enable_script (engine.rs 739-741), ScriptStorage::enable
EnableScript(script_id) ==
    /\ pc = "idle"
    /\ scripts' = enable(scripts, script_id)
    /\ disk' = IF script_id \in DOMAIN scripts
               THEN Insert(disk, script_id, scripts'[script_id].definition)
               ELSE disk
    /\ sticky' = sticky \ {script_id}
    /\ last_exec' = NoResult
    /\ UNCHANGED <<outVars, ctxVars, trigVars, rlVars, pc, stack, scripts_to_run, reload_counter,
                   ticks, horizon,
                   gpio_handle, hw_requests, runs, run_dispatched, dispatch_log>>

\* the tasks of run_agent that take AppState's lock
Tasks == {"commands", "engine", "main"}

\* no command was answered yet
NoCommand == [command |-> "none", id |-> "", success |-> FALSE]

\* the command handler and the lock are not exercised
AgentAtRest ==
    /\ dir = EmptyMap
    /\ cmd_scripts = EmptyMap
    /\ cmd_pc = <<>>
    /\ cmd_last = NoCommand
    /\ guards = [t \in Tasks |-> "none"]
    /\ task_pc = [t \in Tasks |-> IF t = "commands" THEN "sleep"
                                   ELSE IF t = "engine" THEN "interval" ELSE "select"]

EngInit ==
    /\ disk \in Programs
    /\ scripts = load_all(disk, TRUE)
    /\ pc = "idle"
    /\ stack = <<>>
    /\ scripts_to_run = <<>>
    /\ reload_counter = 0
    /\ ticks = 0
    /\ horizon = MaxTicks
    /\ gpio_handle \in BOOLEAN
    /\ hw_requests = <<>>
    /\ last_exec = NoResult
    /\ runs = 0
    /\ sticky = {}
    /\ run_dispatched = 0
    /\ dispatch_log = {}
    /\ context = EmptyMap
    /\ tick_context = EmptyMap
    /\ startup_fired = {}
    /\ startup_due = {}
    /\ startup_runs = [id \in ScriptIds |-> 0]
    /\ main = "running"
    /\ AgentAtRest

-----------------------------------------------------------------------------
(* CircuitBreaker (resilience/circuit_breaker.rs) *)

Threads == {1, 2}

STATE_CLOSED == "closed"
STATE_OPEN == "open"
STATE_HALF_OPEN == "half_open"

\* a threshold test that opens one failure late
threshold_reached_late(count) == count > failure_threshold

\* count >= self.failure_threshold (circuit_breaker.rs 101)
threshold_reached(count) == count >= failure_threshold

\* a recovery test that waits one tick of the clock too long
recovery_elapsed_strict(last, t) == t - last > recovery_timeout

\* last.elapsed() >= self.recovery_timeout (circuit_breaker.rs 54)
recovery_elapsed(last, t) == t - last >= recovery_timeout

\* a half-open period that closes on its first success
successes_reached_early(count) == count >= success_threshold - 1

\* count >= self.success_threshold (circuit_breaker.rs 79)
successes_reached(count) == count >= success_threshold

\* a thread outside any call of the breaker
IdleThread ==
    [pc |-> "idle", op |-> "", loaded |-> "", pre |-> "", last |-> <<>>]

AllIdle == \A t \in Threads : threads[t].pc = "idle"

NoCBCall == [called |-> FALSE, op |-> "", pre |-> "", result |-> FALSE, at |-> 0]

NoPeriod == [successes |-> 0, failed |-> FALSE]

NoClose == [happened |-> FALSE, successes |-> 0, failed |-> FALSE]

\* CircuitBreaker::new
CBInit ==
    /\ cb_state = STATE_CLOSED
    /\ failure_count = 0
    /\ success_count = 0
    /\ last_failure = <<>>
    /\ cb_lock = {}
    /\ threads = [t \in Threads |-> IdleThread]
    /\ cb_concurrent = FALSE
    /\ cb_calls = 0
    /\ cb_last = NoCBCall
    /\ cb_consec = 0
    /\ cb_period = NoPeriod
    /\ cb_close = NoClose

CBOthers == <<cdVars, windows, accepts, engVars, sysVars>>

\* thread t moves to position p of its call
Goto(t, p) == threads' = [threads EXCEPT ![t].pc = p]

\* the call of thread t returns: the thread is idle again, the call is logged
\* with the state it started in, its answer and the clock
Return(t, result) ==
    LET c == threads[t] IN
    /\ threads' = [threads EXCEPT ![t] = IdleThread]
    /\ cb_last' = [called |-> TRUE, op |-> c.op, pre |-> c.pre, result |-> result,
                    at |-> now]
    /\ cb_consec' = IF c.op = "record_success" THEN 0
                    ELSE IF c.op = "record_failure" /\ c.pre = STATE_CLOSED
                    THEN cb_consec + 1
                    ELSE cb_consec

\* a thread enters is_open, record_success or record_failure; calls of
\* different threads overlap only when cb_concurrent
CBCall(t, op) ==
    /\ threads[t].pc = "idle"
    /\ cb_concurrent \/ AllIdle
    /\ cb_calls < MaxCalls
    /\ cb_calls' = cb_calls + 1
    /\ threads' = [threads EXCEPT ![t] =
                     [pc |-> "load", op |-> op, loaded |-> "", pre |-> cb_state,
                      last |-> <<>>]]
    /\ UNCHANGED <<cb_state, failure_count, success_count, last_failure, cb_lock,
                   cb_concurrent, cb_last, cb_consec, cb_period, cb_close,
                   now, CBOthers>>

\* a record_failure that calls open_circuit in the open state as it does in
\* half_open, stamping last_failure again
CBLoad_open_failure_restamps(t) ==
    /\ threads[t].pc = "load"
    /\ LET c == threads[t] IN
       CASE c.op = "is_open" ->
              IF cb_state = STATE_OPEN
              THEN /\ threads' = [threads EXCEPT ![t].pc = "io_lock",
                                                 ![t].loaded = cb_state]
                   /\ UNCHANGED <<cb_last, cb_consec>>
              ELSE Return(t, FALSE)
         [] c.op = "record_success" ->
              IF cb_state = STATE_HALF_OPEN
              THEN /\ threads' = [threads EXCEPT ![t].pc = "rs_add",
                                                 ![t].loaded = cb_state]
                   /\ UNCHANGED <<cb_last, cb_consec>>
              ELSE IF cb_state = STATE_CLOSED
              THEN /\ threads' = [threads EXCEPT ![t].pc = "rs_reset",
                                                 ![t].loaded = cb_state]
                   /\ UNCHANGED <<cb_last, cb_consec>>
              ELSE Return(t, FALSE)
         [] OTHER ->
              IF cb_state = STATE_CLOSED
              THEN /\ threads' = [threads EXCEPT ![t].pc = "rf_add",
                                                 ![t].loaded = cb_state]
                   /\ UNCHANGED <<cb_last, cb_consec>>
              ELSE /\ threads' = [threads EXCEPT ![t].pc = "oc_store",
                                                 ![t].loaded = cb_state]
                   /\ UNCHANGED <<cb_last, cb_consec>>
    /\ UNCHANGED <<cb_state, failure_count, success_count, last_failure, cb_lock,
                   cb_concurrent, cb_calls, cb_period, cb_close, now, CBOthers>>

\* self.state.load(SeqCst) and the match on it (circuit_breaker.rs 49-50, 67-68,
\* 74-76, 90, 96-98, 109)
CBLoad(t) ==
    /\ threads[t].pc = "load"
    /\ LET c == threads[t] IN
       CASE c.op = "is_open" ->
              IF cb_state = STATE_OPEN
              THEN /\ threads' = [threads EXCEPT ![t].pc = "io_lock",
                                                 ![t].loaded = cb_state]
                   /\ UNCHANGED <<cb_last, cb_consec>>
              ELSE Return(t, FALSE)
         [] c.op = "record_success" ->
              IF cb_state = STATE_HALF_OPEN
              THEN /\ threads' = [threads EXCEPT ![t].pc = "rs_add",
                                                 ![t].loaded = cb_state]
                   /\ UNCHANGED <<cb_last, cb_consec>>
              ELSE IF cb_state = STATE_CLOSED
              THEN /\ threads' = [threads EXCEPT ![t].pc = "rs_reset",
                                                 ![t].loaded = cb_state]
                   /\ UNCHANGED <<cb_last, cb_consec>>
              ELSE Return(t, FALSE)
         [] OTHER ->
              IF cb_state = STATE_CLOSED
              THEN /\ threads' = [threads EXCEPT ![t].pc = "rf_add",
                                                 ![t].loaded = cb_state]
                   /\ UNCHANGED <<cb_last, cb_consec>>
              ELSE IF cb_state = STATE_HALF_OPEN
              THEN /\ threads' = [threads EXCEPT ![t].pc = "oc_store",
                                                 ![t].loaded = cb_state]
                   /\ UNCHANGED <<cb_last, cb_consec>>
              ELSE Return(t, FALSE)
    /\ UNCHANGED <<cb_state, failure_count, success_count, last_failure, cb_lock,
                   cb_concurrent, cb_calls, cb_period, cb_close, now, CBOthers>>

\* is_open: self.last_failure.read() (circuit_breaker.rs 53); the guard lives to
\* the end of the if-let
CBReadLastFailure(t) ==
    /\ threads[t].pc = "io_lock"
    /\ IF last_failure = <<>>
       THEN /\ Return(t, TRUE)
            /\ UNCHANGED cb_lock
       ELSE /\ threads' = [threads EXCEPT ![t].pc = "io_elapsed",
                                          ![t].last = last_failure]
            /\ cb_lock' = cb_lock \cup {t}
            /\ UNCHANGED <<cb_last, cb_consec>>
    /\ UNCHANGED <<cb_state, failure_count, success_count, last_failure,
                   cb_concurrent, cb_calls, cb_period, cb_close, now, CBOthers>>

\* is_open: last.elapsed() >= self.recovery_timeout (circuit_breaker.rs 54, 65)
CBElapsed(t) ==
    /\ threads[t].pc = "io_elapsed"
    /\ IF recovery_elapsed(threads[t].last[1], now)
       THEN /\ Goto(t, "io_half_open")
            /\ UNCHANGED <<cb_lock, cb_last, cb_consec>>
       ELSE /\ Return(t, TRUE)
            /\ cb_lock' = cb_lock \ {t}
    /\ UNCHANGED <<cb_state, failure_count, success_count, last_failure,
                   cb_concurrent, cb_calls, cb_period, cb_close, now, CBOthers>>

\* is_open: self.state.store(STATE_HALF_OPEN) (circuit_breaker.rs 56)
CBStoreHalfOpen(t) ==
    /\ threads[t].pc = "io_half_open"
    /\ cb_state' = STATE_HALF_OPEN
    /\ cb_period' = NoPeriod
    /\ cb_close' = NoClose
    /\ Goto(t, "io_reset")
    /\ UNCHANGED <<failure_count, success_count, last_failure, cb_lock,
                   cb_concurrent, cb_calls, cb_last, cb_consec, now, CBOthers>>

\* is_open: self.success_count.store(0); return false (circuit_breaker.rs 57-62)
CBResetSuccesses(t) ==
    /\ threads[t].pc = "io_reset"
    /\ success_count' = 0
    /\ cb_lock' = cb_lock \ {t}
    /\ Return(t, FALSE)
    /\ UNCHANGED <<cb_state, failure_count, last_failure, cb_concurrent, cb_calls,
                   cb_period, cb_close, now, CBOthers>>

\* record_success in half-open: success_count.fetch_add(1) + 1 and the test
\* against success_threshold (circuit_breaker.rs 78-79). The counters are
\* AtomicU32 and stay far below 2^32 over the calls modelled.
CBAddSuccess(t) ==
    /\ threads[t].pc = "rs_add"
    /\ success_count' = success_count + 1
    /\ cb_period' = [cb_period EXCEPT !.successes = @ + 1]
    /\ IF successes_reached(success_count + 1)
       THEN /\ Goto(t, "rs_close")
            /\ UNCHANGED <<cb_last, cb_consec>>
       ELSE Return(t, FALSE)
    /\ UNCHANGED <<cb_state, failure_count, last_failure, cb_lock, cb_concurrent,
                   cb_calls, cb_close, now, CBOthers>>

\* record_success: self.state.store(STATE_CLOSED) (circuit_breaker.rs 81)
CBStoreClosed(t) ==
    /\ threads[t].pc = "rs_close"
    /\ cb_state' = STATE_CLOSED
    /\ cb_close' = [happened |-> TRUE, successes |-> cb_period.successes,
                    failed |-> cb_period.failed]
    /\ Goto(t, "rs_reset")
    /\ UNCHANGED <<failure_count, success_count, last_failure, cb_lock,
                   cb_concurrent, cb_calls, cb_last, cb_consec, cb_period,
                   now, CBOthers>>

\* record_success: self.failure_count.store(0) (circuit_breaker.rs 82, 88)
CBResetFailures(t) ==
    /\ threads[t].pc = "rs_reset"
    /\ failure_count' = 0
    /\ Return(t, FALSE)
    /\ UNCHANGED <<cb_state, success_count, last_failure, cb_lock, cb_concurrent,
                   cb_calls, cb_period, cb_close, now, CBOthers>>

\* record_failure in closed: failure_count.fetch_add(1) + 1 and the test against
\* failure_threshold (circuit_breaker.rs 100-101)
CBAddFailure(t) ==
    /\ threads[t].pc = "rf_add"
    /\ failure_count' = failure_count + 1
    /\ IF threshold_reached(failure_count + 1)
       THEN /\ Goto(t, "oc_store")
            /\ UNCHANGED <<cb_last, cb_consec>>
       ELSE Return(t, FALSE)
    /\ UNCHANGED <<cb_state, success_count, last_failure, cb_lock, cb_concurrent,
                   cb_calls, cb_period, cb_close, now, CBOthers>>

\* open_circuit: self.state.store(STATE_OPEN) (circuit_breaker.rs 115)
CBStoreOpen(t) ==
    /\ threads[t].pc = "oc_store"
    /\ cb_state' = STATE_OPEN
    /\ cb_period' = IF threads[t].loaded = STATE_HALF_OPEN
                    THEN [cb_period EXCEPT !.failed = TRUE] ELSE cb_period
    /\ Goto(t, "oc_write")
    /\ UNCHANGED <<failure_count, success_count, last_failure, cb_lock,
                   cb_concurrent, cb_calls, cb_last, cb_consec, cb_close,
                   now, CBOthers>>

\* open_circuit: *self.last_failure.write() = Some(Instant::now()), once no
\* reader holds the lock; the failure_count.load of the log line reads only
\* (circuit_breaker.rs 116-121)
CBWriteLastFailure(t) ==
    /\ threads[t].pc = "oc_write"
    /\ cb_lock = {}
    /\ last_failure' = <<now>>
    /\ Return(t, FALSE)
    /\ UNCHANGED <<cb_state, failure_count, success_count, cb_lock, cb_concurrent,
                   cb_calls, cb_period, cb_close, now, CBOthers>>

\* the clock advances by d seconds; between calls only, unless calls overlap
CBAdvance(d) ==
    /\ cb_concurrent \/ AllIdle
    /\ now + d <= MaxNow
    /\ now' = now + d
    /\ UNCHANGED <<cbVars, CBOthers>>

NextCB ==
    \/ \E t \in Threads, op \in {"is_open", "record_success", "record_failure"} :
          CBCall(t, op)
    \/ \E t \in Threads : CBLoad(t)
    \/ \E t \in Threads : CBReadLastFailure(t)
    \/ \E t \in Threads : CBElapsed(t)
    \/ \E t \in Threads : CBStoreHalfOpen(t)
    \/ \E t \in Threads : CBResetSuccesses(t)
    \/ \E t \in Threads : CBAddSuccess(t)
    \/ \E t \in Threads : CBStoreClosed(t)
    \/ \E t \in Threads : CBResetFailures(t)
    \/ \E t \in Threads : CBAddFailure(t)
    \/ \E t \in Threads : CBStoreOpen(t)
    \/ \E t \in Threads : CBWriteLastFailure(t)
    \/ \E d \in AdvanceSteps : CBAdvance(d)

-----------------------------------------------------------------------------
(* Specifications *)

Init == CDInit /\ RLInit /\ EngInit /\ CBInit

\* the engine at rest, for the specifications of the single components
EngAtRest ==
    /\ EngInit
    /\ disk = ReloadProgram
    /\ gpio_handle

Next ==
    \/ Tick
    \/ StartTriggered
    \/ EndTick
    \/ \E id \in ScriptIds : ExecuteScript(id)
    \/ \E id \in ScriptIds : EnableScript(id)
    \/ StepAction
    \/ StepOnError
    \/ Finish

Spec == Init /\ [][Next]_vars

\* the engine task keeps being polled: an actor's answer and a sleep arrive, so a
\* frame of execute_with_depth that can take a step takes one
EngineProgress == WF_vars(StepAction \/ StepOnError \/ Finish)

\* the action lists of the call graphs: one or two call_script actions, to any
\* script of the directory, the script itself included
CallLists ==
    {<<CallScript(x)>> : x \in ScriptIds}
        \cup {<<CallScript(x), CallScript(y)>> : x \in ScriptIds, y \in ScriptIds}

\* every call graph over the scripts
CallGraphs == [ScriptIds -> CallLists]

\* the engine at rest over the directory of a call graph, with one pass of the
\* loop and one run left of those the bounds allow
InitFair ==
    /\ CDInit
    /\ RLInit
    /\ CBInit
    /\ \E g \in CallGraphs :
          disk = [id \in ScriptIds |-> ScriptDefinition(id, TRUE, g[id], <<Noop>>)]
    /\ scripts = load_all(disk, TRUE)
    /\ pc = "idle"
    /\ stack = <<>>
    /\ scripts_to_run = <<>>
    /\ reload_counter = 0
    /\ ticks = MaxTicks - 1
    /\ horizon = MaxTicks
    /\ gpio_handle = TRUE
    /\ hw_requests = <<>>
    /\ last_exec = NoResult
    /\ runs = MaxRuns - 1
    /\ sticky = {}
    /\ run_dispatched = 0
    /\ dispatch_log = {}
    /\ context = EmptyMap
    /\ tick_context = EmptyMap
    /\ startup_fired = {}
    /\ startup_due = {}
    /\ startup_runs = [id \in ScriptIds |-> 0]
    /\ main = "running"
    /\ AgentAtRest

SpecFair == InitFair /\ [][Next]_vars /\ EngineProgress

-----------------------------------------------------------------------------
(* write_modbus: the script action and the command *)

\* the JSON numbers a write is asked to make: negative, the ends of the u16
\* range, and beyond it
ModbusValues ==
    {-1, 0, U16Modulus - 1, U16Modulus, U16Modulus + 1, 2 * U16Modulus + 7}

\* the value parameter: absent, or one of the numbers
ModbusParams == {<<>>} \cup {<<v>> : v \in ModbusValues}

\* cmd_write_modbus (commands.rs 458-519): the response, with the parameter as
\* it came and the value handed to the Modbus actor, if any; handle: whether
\* AppState.modbus_handle is Some; ok: the actor's answer
cmd_write_modbus(device, address, value, handle, ok) ==
    LET Response(success, error, sent) ==
            [command |-> "write_modbus", id |-> "", success |-> success,
             error |-> error, value |-> value, sent |-> sent]
    IN IF device = <<>> THEN Response(FALSE, "Missing 'device' parameter", <<>>)
       ELSE IF as_u64(address) = <<>>
       THEN Response(FALSE, "Missing 'address' parameter", <<>>)
       ELSE IF as_u64(value) = <<>>
       THEN Response(FALSE, "Missing 'value' parameter", <<>>)
       ELSE IF ~handle THEN Response(FALSE, "No Modbus devices configured", <<>>)
       ELSE IF ok THEN Response(TRUE, "", <<as_u16(as_u64(value)[1])>>)
       ELSE Response(FALSE, "Write failed", <<as_u16(as_u64(value)[1])>>)

\* the params of the write_modbus commands: device, address and value, with
\* every value, or with the device or the address missing
ModbusCommands ==
    {<<<<"PLC-1">>, <<100>>, value>> : value \in ModbusParams}
        \cup {<< <<>>, <<100>>, <<0>> >>, << <<"PLC-1">>, <<>>, <<0>> >>}

\* the command handler executes a write_modbus command (commands.rs 120)
CmdWriteModbus(device, address, value) ==
    /\ main = "running"
    /\ \E handle, ok \in BOOLEAN :
          cmd_last' = cmd_write_modbus(device, address, value, handle, ok)
    /\ UNCHANGED <<cbVars, cdVars, rlVars, engVars, main, dir, cmd_scripts, cmd_pc,
                   lockVars>>

\* the scripts directories: one script with one write_modbus action, and an
\* error handler
ModbusPrograms ==
    {[id \in {"A"} |->
        ScriptDefinition("A", TRUE, <<WriteModbus(device, <<100>>, value)>>, <<Noop>>)] :
     device \in {<<>>, <<"PLC-1">>}, value \in ModbusParams}

\* the engine at rest over one of the directories, with one pass of the loop
\* and one run left of those the bounds allow
InitModbus ==
    /\ CDInit
    /\ RLInit
    /\ CBInit
    /\ disk \in ModbusPrograms
    /\ scripts = load_all(disk, TRUE)
    /\ pc = "idle"
    /\ stack = <<>>
    /\ scripts_to_run = <<>>
    /\ reload_counter = 0
    /\ ticks = MaxTicks - 1
    /\ horizon = MaxTicks
    /\ gpio_handle = TRUE
    /\ hw_requests = <<>>
    /\ last_exec = NoResult
    /\ runs = MaxRuns - 1
    /\ sticky = {}
    /\ run_dispatched = 0
    /\ dispatch_log = {}
    /\ context = EmptyMap
    /\ tick_context = EmptyMap
    /\ startup_fired = {}
    /\ startup_due = {}
    /\ startup_runs = [id \in ScriptIds |-> 0]
    /\ main = "running"
    /\ AgentAtRest

NextModbus ==
    \/ Tick
    \/ StartTriggered
    \/ EndTick
    \/ \E id \in ScriptIds : ExecuteScript(id)
    \/ StepAction
    \/ StepOnError
    \/ Finish
    \/ \E params \in ModbusCommands : CmdWriteModbus(params[1], params[2], params[3])

SpecModbus == InitModbus /\ [][NextModbus]_vars

\* one directory, and passes of the loop up to and beyond the periodic reload
InitReload ==
    /\ CDInit
    /\ CBInit
    /\ RLInit
    /\ disk = ReloadProgram
    /\ scripts = load_all(disk, TRUE)
    /\ pc = "idle"
    /\ stack = <<>>
    /\ scripts_to_run = <<>>
    /\ reload_counter = 0
    /\ ticks = 0
    /\ horizon = ReloadTicks + MaxTicks
    /\ gpio_handle = TRUE
    /\ hw_requests = <<>>
    /\ last_exec = NoResult
    /\ runs = 0
    /\ sticky = {}
    /\ run_dispatched = 0
    /\ dispatch_log = {}
    /\ context = EmptyMap
    /\ tick_context = EmptyMap
    /\ startup_fired = {}
    /\ startup_due = {}
    /\ startup_runs = [id \in ScriptIds |-> 0]
    /\ main = "running"
    /\ AgentAtRest

SpecReload == InitReload /\ [][Next]_vars

NextCD ==
    \/ \E s \in ScriptIds, p \in Pins, v \in BOOLEAN : CheckGpioWrite(s, p, v)
    \/ \E s \in ScriptIds, k \in RegKeys, v \in U16Values :
          CheckModbusWrite(s, k[1], k[2], v)
    \/ \E s \in ScriptIds, k \in RegKeys, v \in BOOLEAN :
          CheckCoilWrite(s, k[1], k[2], v)
    \/ ResetDetector

InitCD == CDInit /\ RLInit /\ EngAtRest /\ CBInit

SpecCD == InitCD /\ [][NextCD]_vars

NextRL ==
    \/ \E s \in ScriptIds : RLCheck(s)
    \/ \E d \in AdvanceSteps : RLAdvance(d)

InitRL == CDInit /\ RLInit /\ EngAtRest /\ CBInit

SpecRL == InitRL /\ [][NextRL]_vars

\* the breaker called by one caller at a time
InitCB == CDInit /\ RLInit /\ EngAtRest /\ CBInit

SpecCB == InitCB /\ [][NextCB]_vars

\* the breaker shared by threads whose calls overlap, one atomic access a step
InitCBC ==
    /\ CDInit
    /\ RLInit
    /\ EngAtRest
    /\ cb_state = STATE_CLOSED
    /\ failure_count = 0
    /\ success_count = 0
    /\ last_failure = <<>>
    /\ cb_lock = {}
    /\ threads = [t \in Threads |-> IdleThread]
    /\ cb_concurrent = TRUE
    /\ cb_calls = 0
    /\ cb_last = NoCBCall
    /\ cb_consec = 0
    /\ cb_period = NoPeriod
    /\ cb_close = NoClose

SpecCBC == InitCBC /\ [][NextCB]_vars

-----------------------------------------------------------------------------
(* The engine with its script management API *)

\* ScriptStorage::disable: the record and the {id}.json file
disable(ss, id) ==
    IF id \in DOMAIN ss
    THEN [ss EXCEPT ![id].definition.enabled = FALSE, ![id].status = "paused"]
    ELSE ss

\* ScriptStorage::add_script, save: a fresh record replaces the one in the map
add_script(ss, definition) == Insert(ss, definition.id, Script(definition))

\* the definitions a command may add
NewDefinitions ==
    {ScriptDefinition(id, e, <<Noop>>, <<>>) : id \in ScriptIds, e \in BOOLEAN}

\* ScriptEngine::disable_script (engine.rs 744-747)
DisableScript(script_id) ==
    /\ pc = "idle"
    /\ scripts' = disable(scripts, script_id)
    /\ disk' = IF script_id \in DOMAIN scripts
               THEN Insert(disk, script_id, scripts'[script_id].definition)
               ELSE disk
    /\ last_exec' = NoResult
    /\ UNCHANGED <<outVars, ctxVars, trigVars, rlVars, pc, stack, scripts_to_run, reload_counter, ticks,
                   horizon, gpio_handle, hw_requests, runs, sticky, run_dispatched,
                   dispatch_log>>

\* ScriptEngine::add_script (engine.rs 728-730)
AddScript(definition) ==
    /\ pc = "idle"
    /\ scripts' = add_script(scripts, definition)
    /\ disk' = Insert(disk, definition.id, definition)
    /\ sticky' = sticky \ {definition.id}
    /\ last_exec' = NoResult
    /\ UNCHANGED <<outVars, ctxVars, trigVars, rlVars, pc, stack, scripts_to_run, reload_counter, ticks,
                   horizon, gpio_handle, hw_requests, runs, run_dispatched,
                   dispatch_log>>

\* the directory the management specification starts from
AdminProgram ==
    [id \in ScriptIds |-> IF id = "A" THEN Writes("A", TRUE, <<Noop>>) ELSE Calls("B", "A")]

InitAdmin ==
    /\ CDInit
    /\ CBInit
    /\ RLInit
    /\ disk = AdminProgram
    /\ scripts = load_all(disk, TRUE)
    /\ pc = "idle"
    /\ stack = <<>>
    /\ scripts_to_run = <<>>
    /\ reload_counter = 0
    /\ ticks = 0
    /\ horizon = MaxTicks
    /\ gpio_handle \in BOOLEAN
    /\ hw_requests = <<>>
    /\ last_exec = NoResult
    /\ runs = 0
    /\ sticky = {}
    /\ run_dispatched = 0
    /\ dispatch_log = {}
    /\ context = EmptyMap
    /\ tick_context = EmptyMap
    /\ startup_fired = {}
    /\ startup_due = {}
    /\ startup_runs = [id \in ScriptIds |-> 0]
    /\ main = "running"
    /\ AgentAtRest

NextAdmin ==
    \/ Next
    \/ \E id \in ScriptIds : DisableScript(id)
    \/ \E d \in NewDefinitions : AddScript(d)

SpecAdmin == InitAdmin /\ [][NextAdmin]_vars

-----------------------------------------------------------------------------
(* The engine in the agent: init, the startup pass, the loop, shutdown *)

\* the active scripts one of whose triggers is the startup trigger (engine.rs
\* 92-98)
startup_scripts(ss) == {id \in get_active(ss) : HasStartup(ss[id].definition)}

\* ScriptEngine::init on the main task (engine.rs 81-89, main.rs 268-273):
\* the storage is loaded, run_startup_scripts collects the scripts to run
EngineInit ==
    /\ pc = "new"
    /\ \E order \in Orders(startup_scripts(scripts)) :
         /\ Len(order) = Cardinality(startup_scripts(scripts))
         /\ scripts_to_run' = order
    /\ pc' = "startup"
    /\ UNCHANGED <<outVars, ctxVars, trigVars, rlVars, scripts, disk, stack, reload_counter,
                   ticks, horizon, gpio_handle, hw_requests, last_exec, runs, sticky,
                   run_dispatched, dispatch_log>>

\* run_startup_scripts, the loop (engine.rs 100-106)
StartStartupScript ==
    /\ pc = "startup"
    /\ stack = <<>>
    /\ scripts_to_run # <<>>
    /\ scripts_to_run' = Tail(scripts_to_run)
    /\ runs' = runs + 1
    /\ Begin(Head(scripts_to_run), "startup")
    /\ startup_runs' = [startup_runs EXCEPT ![Head(scripts_to_run)] = @ + 1]
    /\ UNCHANGED <<outVars, ctxVars, startup_fired, startup_due, now, accepts, disk,
                   reload_counter, ticks, horizon, gpio_handle, hw_requests, sticky>>

\* init returns and main spawns the engine task, which waits for its first
\* interval tick (main.rs 275-277, engine.rs 114-117)
EndStartup ==
    /\ pc = "startup"
    /\ stack = <<>>
    /\ scripts_to_run = <<>>
    /\ pc' = "idle"
    /\ last_exec' = NoResult
    /\ UNCHANGED <<outVars, ctxVars, trigVars, rlVars, scripts, disk, stack, scripts_to_run,
                   reload_counter, ticks, horizon, gpio_handle, hw_requests, runs, sticky,
                   run_dispatched, dispatch_log>>

\* main's loop sees the shutdown signal and aborts the spawned tasks (main.rs
\* 282-299); it does not wait for them
Shutdown ==
    /\ main = "running"
    /\ pc \notin {"new", "startup"}
    /\ main' = "aborted"
    /\ UNCHANGED <<cdVars, rlVars, engVars, cbVars, storeVars, lockVars>>

\* the action makes the engine task wait: an actor round trip or a sleep
Suspends(action) ==
    \/ /\ action.action_type = "set_gpio"
       /\ action.target # <<>>
       /\ action.value # <<>>
       /\ gpio_handle
    \/ /\ action.action_type = "delay"
       /\ action.delay_ms # <<>>
       /\ action.delay_ms[1] <= max_delay_ms

\* the engine task is waiting: for the interval, or inside an action
AtSuspensionPoint ==
    \/ pc = "idle"
    \/ /\ stack # <<>>
       /\ \/ Top.phase = "actions" /\ Suspends(Top.definition.actions[Top.idx])
          \/ Top.phase = "on_error" /\ Suspends(Top.definition.on_error[Top.idx])

\* JoinHandle::abort takes effect: the aborted engine task is dropped where it
\* waits, with whatever it was in the middle of (main.rs 299)
EngineCancelled ==
    /\ main # "running"
    /\ pc # "stopped"
    /\ AtSuspensionPoint
    /\ pc' = "stopped"
    /\ UNCHANGED <<outVars, ctxVars, trigVars, rlVars, scripts, disk, stack, scripts_to_run,
                   reload_counter, ticks, horizon, gpio_handle, hw_requests, last_exec,
                   runs, sticky, run_dispatched, dispatch_log>>

\* main disconnects the hardware (main.rs 300-310)
Disconnect ==
    /\ main = "aborted"
    /\ main' = "disconnected"
    /\ UNCHANGED <<cdVars, rlVars, engVars, cbVars, storeVars, lockVars>>

\* the directory of the agent's specification
LifeProgram ==
    [id \in ScriptIds |-> IF id = "A" THEN AtStartup("A") ELSE Writes("B", TRUE, <<Noop>>)]

InitLife ==
    /\ CDInit
    /\ CBInit
    /\ RLInit
    /\ disk = LifeProgram
    /\ scripts = load_all(disk, TRUE)
    /\ pc = "new"
    /\ stack = <<>>
    /\ scripts_to_run = <<>>
    /\ reload_counter = 0
    /\ ticks = 0
    /\ horizon = MaxTicks
    /\ gpio_handle \in BOOLEAN
    /\ hw_requests = <<>>
    /\ last_exec = NoResult
    /\ runs = 0
    /\ sticky = {}
    /\ run_dispatched = 0
    /\ dispatch_log = {}
    /\ context = EmptyMap
    /\ tick_context = EmptyMap
    /\ startup_fired = {}
    /\ startup_due = {}
    /\ startup_runs = [id \in ScriptIds |-> 0]
    /\ main = "running"
    /\ AgentAtRest

NextLife ==
    \/ Next
    \/ EngineInit
    \/ StartStartupScript
    \/ EndStartup
    \/ Shutdown
    \/ EngineCancelled
    \/ Disconnect

SpecLife == InitLife /\ [][NextLife]_vars

-----------------------------------------------------------------------------
(* The command handler, the engine's reload and main's cleanup as tasks     *)
(* over the scripts directory and AppState's lock (commands.rs, storage.rs, *)
(* main.rs)                                                                 *)

\* the file <<id, ext>> is {id}.{ext}; load_all takes these two extensions
Extensions == {"json", "yaml"}
FileNames == ScriptIds \X Extensions

\* load_script_file: the content parses unless fs::write has only truncated it
parses(content) == content # <<>>

\* ScriptStorage::load_all over the files: the map is cleared, every file that
\* parses is inserted under its definition's id, a file that does not is
\* skipped; of two files of one id the one read_dir yields last stays
load_all_files(d, read_dir_ok) ==
    IF ~read_dir_ok THEN {EmptyMap}
    ELSE LET loadable == {f \in DOMAIN d : parses(d[f])}
             ids == {d[f][1].id : f \in loadable}
         IN  {[id \in ids |-> Script(d[last[id]][1])] :
                 last \in {l \in [ids -> loadable] : \A id \in ids : d[l[id]][1].id = id}}

\* ScriptStorage::delete: the record, and the file {id}.json if it exists
delete(ss, d, id) ==
    IF id \in DOMAIN ss
    THEN [scripts |-> [x \in DOMAIN ss \ {id} |-> ss[x]],
          dir |-> [f \in DOMAIN d \ {<<id, "json">>} |-> d[f]],
          deleted |-> TRUE]
    ELSE [scripts |-> ss, dir |-> d, deleted |-> FALSE]

\* what the rest of the model keeps while these tasks run
agentFrame == <<cdVars, rlVars, cbVars, main, disk, pc, stack, scripts_to_run, reload_counter,
                ticks, horizon, gpio_handle, hw_requests, last_exec, runs, sticky,
                run_dispatched, dispatch_log, ctxVars, trigVars>>

\* tokio's RwLock: readers share, a writer is alone
CanAcquire(t, kind) ==
    IF kind = "write" THEN \A u \in Tasks \ {t} : guards[u] = "none"
                      ELSE \A u \in Tasks \ {t} : guards[u] # "write"

\* state.read().await or state.write().await returns the guard
Acquire(t, kind, from, to) ==
    /\ task_pc[t] = from
    /\ guards[t] = "none"
    /\ CanAcquire(t, kind)
    /\ guards' = [guards EXCEPT ![t] = kind]
    /\ task_pc' = [task_pc EXCEPT ![t] = to]

\* the guard goes out of scope or is dropped
Release(t, from, to) ==
    /\ task_pc[t] = from
    /\ guards' = [guards EXCEPT ![t] = "none"]
    /\ task_pc' = [task_pc EXCEPT ![t] = to]

\* CommandHandler::run takes the write guard for try_recv (commands.rs 45-52)
RunLock ==
    /\ Acquire("commands", "write", "sleep", "try_recv")
    /\ UNCHANGED <<agentFrame, scripts, storeVars>>

\* try_recv has a message or not; the guard's block ends
RunTryRecv(message) ==
    /\ Release("commands", "try_recv", IF message THEN "handle_message" ELSE "sleep")
    /\ UNCHANGED <<agentFrame, scripts, storeVars>>

\* handle_message reads the topics under a read guard (commands.rs 64-65)
HandleMessageLock ==
    /\ Acquire("commands", "read", "handle_message", "topics")
    /\ UNCHANGED <<agentFrame, scripts, storeVars>>

\* drop(state) (commands.rs 66)
HandleMessageDrop ==
    /\ Release("commands", "topics", "execute_command")
    /\ UNCHANGED <<agentFrame, scripts, storeVars>>

\* execute_command reads device_id under a read guard (commands.rs 109-112)
ExecuteCommandLock ==
    /\ Acquire("commands", "read", "execute_command", "device_id")
    /\ UNCHANGED <<agentFrame, scripts, storeVars>>

\* the block of the guard ends
ExecuteCommandDrop ==
    /\ Release("commands", "device_id", "command")
    /\ UNCHANGED <<agentFrame, scripts, storeVars>>

\* cmd_deploy_script, add_script, save: fs::write opens {id}.json, which
\* truncates it
DeployTruncate(definition) ==
    /\ task_pc["commands"] = "command"
    /\ cmd_pc = <<>>
    /\ dir' = Insert(dir, <<definition.id, "json">>, <<>>)
    /\ cmd_pc' = <<definition>>
    /\ UNCHANGED <<agentFrame, scripts, cmd_scripts, cmd_last, lockVars>>

\* fs::write writes the content; save inserts the record; the command answers
DeployWrite ==
    /\ task_pc["commands"] = "command"
    /\ cmd_pc # <<>>
    /\ dir' = Insert(dir, <<cmd_pc[1].id, "json">>, <<cmd_pc[1]>>)
    /\ cmd_scripts' = add_script(cmd_scripts, cmd_pc[1])
    /\ cmd_pc' = <<>>
    /\ cmd_last' = [command |-> "deploy_script", id |-> cmd_pc[1].id, success |-> TRUE]
    /\ task_pc' = [task_pc EXCEPT !["commands"] = "respond"]
    /\ UNCHANGED <<agentFrame, scripts, guards>>

\* cmd_delete_script (commands.rs 747-770)
DeleteScript(script_id) ==
    /\ task_pc["commands"] = "command"
    /\ cmd_pc = <<>>
    /\ LET r == delete(cmd_scripts, dir, script_id)
       IN  /\ cmd_scripts' = r.scripts
           /\ dir' = r.dir
           /\ cmd_last' = [command |-> "delete_script", id |-> script_id,
                           success |-> r.deleted]
    /\ task_pc' = [task_pc EXCEPT !["commands"] = "respond"]
    /\ UNCHANGED <<agentFrame, scripts, cmd_pc, guards>>

\* handle_message takes a read guard to answer (commands.rs 95)
RespondLock ==
    /\ Acquire("commands", "read", "respond", "publish_response")
    /\ UNCHANGED <<agentFrame, scripts, storeVars>>

\* publish_response(...).await returns, the guard's scope ends (commands.rs
\* 96-98)
RespondDone ==
    /\ Release("commands", "publish_response", "sleep")
    /\ UNCHANGED <<agentFrame, scripts, storeVars>>

\* ScriptEngine::run reloads its storage (engine.rs 119-128); the directory of
\* this specification can be read
EngineReload ==
    /\ task_pc["engine"] = "interval"
    /\ scripts' \in load_all_files(dir, TRUE)
    /\ UNCHANGED <<agentFrame, storeVars, lockVars>>

\* action_set_gpio clones the handle under a read guard (engine.rs 484-485)
SetGpioLock ==
    /\ Acquire("engine", "read", "interval", "gpio_handle")
    /\ UNCHANGED <<agentFrame, scripts, storeVars>>

\* the block of the guard ends (engine.rs 487); write_pin is awaited
SetGpioDrop ==
    /\ Release("engine", "gpio_handle", IF gpio_handle THEN "write_pin" ELSE "interval")
    /\ UNCHANGED <<agentFrame, scripts, storeVars>>

\* write_pin(...).await returns (engine.rs 491)
SetGpioDone ==
    /\ task_pc["engine"] = "write_pin"
    /\ task_pc' = [task_pc EXCEPT !["engine"] = "interval"]
    /\ UNCHANGED <<agentFrame, scripts, storeVars, guards>>

\* run_agent leaves its loop and aborts the tasks (main.rs 282-299)
CleanupStart ==
    /\ task_pc["main"] = "select"
    /\ task_pc' = [task_pc EXCEPT !["main"] = "cleanup"]
    /\ UNCHANGED <<agentFrame, scripts, storeVars, guards>>

\* the task waits: for a timer, for the lock, or for I/O
AtAwait(t) ==
    \/ guards[t] = "none"
    \/ task_pc[t] = "publish_response"

\* JoinHandle::abort takes effect at an await of the task; its guard is dropped
\* with it
Aborted(t) ==
    /\ t # "main"
    /\ task_pc["main"] # "select"
    /\ task_pc[t] # "aborted"
    /\ AtAwait(t)
    /\ cmd_pc = <<>> \/ t # "commands"
    /\ task_pc' = [task_pc EXCEPT ![t] = "aborted"]
    /\ guards' = [guards EXCEPT ![t] = "none"]
    /\ UNCHANGED <<agentFrame, scripts, storeVars>>

\* run_agent clones the Modbus handle under a read guard (main.rs 303-304)
CleanupModbusLock ==
    /\ Acquire("main", "read", "cleanup", "modbus_handle")
    /\ UNCHANGED <<agentFrame, scripts, storeVars>>

\* the block of the guard ends (main.rs 306); disconnect_all is awaited
CleanupModbusDrop ==
    /\ Release("main", "modbus_handle", "disconnect_all")
    /\ UNCHANGED <<agentFrame, scripts, storeVars>>

\* disconnect_all().await returns (main.rs 309)
CleanupModbusDone ==
    /\ task_pc["main"] = "disconnect_all"
    /\ task_pc' = [task_pc EXCEPT !["main"] = "mqtt"]
    /\ UNCHANGED <<agentFrame, scripts, storeVars, guards>>

\* run_agent takes the write guard and awaits mqtt.disconnect() (main.rs
\* 315-317)
CleanupMqttLock ==
    /\ Acquire("main", "write", "mqtt", "mqtt_disconnect")
    /\ UNCHANGED <<agentFrame, scripts, storeVars>>

\* disconnect().await returns, the block of the guard ends (main.rs 317-321)
CleanupMqttDone ==
    /\ Release("main", "mqtt_disconnect", "done")
    /\ UNCHANGED <<agentFrame, scripts, storeVars>>

\* the positions where a task awaits I/O: a broker, an actor, a device
IOPoints == {"publish_response", "write_pin", "disconnect_all", "mqtt_disconnect"}

\* the definition every file of the directory holds at the start
Deployed(id) == ScriptDefinition(id, TRUE, <<Noop>>, <<>>)

\* the directories the agent may start over: any of the files {id}.json and
\* {id}.yaml
StoreDirs ==
    {[f \in names |-> <<Deployed(f[1])>>] : names \in SUBSET FileNames}

InitAgent ==
    /\ CDInit
    /\ CBInit
    /\ RLInit
    /\ dir \in StoreDirs
    /\ cmd_scripts \in load_all_files(dir, TRUE)
    /\ scripts \in load_all_files(dir, TRUE)
    /\ cmd_pc = <<>>
    /\ cmd_last = NoCommand
    /\ guards = [t \in Tasks |-> "none"]
    /\ task_pc = [t \in Tasks |-> IF t = "commands" THEN "sleep"
                                   ELSE IF t = "engine" THEN "interval" ELSE "select"]
    /\ disk = EmptyMap
    /\ pc = "idle"
    /\ stack = <<>>
    /\ scripts_to_run = <<>>
    /\ reload_counter = 0
    /\ ticks = 0
    /\ horizon = MaxTicks
    /\ gpio_handle = TRUE
    /\ hw_requests = <<>>
    /\ last_exec = NoResult
    /\ runs = 0
    /\ sticky = {}
    /\ run_dispatched = 0
    /\ dispatch_log = {}
    /\ context = EmptyMap
    /\ tick_context = EmptyMap
    /\ startup_fired = {}
    /\ startup_due = {}
    /\ startup_runs = [id \in ScriptIds |-> 0]
    /\ main = "running"

NextAgent ==
    \/ RunLock
    \/ \E message \in BOOLEAN : RunTryRecv(message)
    \/ HandleMessageLock
    \/ HandleMessageDrop
    \/ ExecuteCommandLock
    \/ ExecuteCommandDrop
    \/ \E d \in NewDefinitions : DeployTruncate(d)
    \/ DeployWrite
    \/ \E id \in ScriptIds : DeleteScript(id)
    \/ RespondLock
    \/ RespondDone
    \/ EngineReload
    \/ SetGpioLock
    \/ SetGpioDrop
    \/ SetGpioDone
    \/ CleanupStart
    \/ \E t \in Tasks : Aborted(t)
    \/ CleanupModbusLock
    \/ CleanupModbusDrop
    \/ CleanupModbusDone
    \/ CleanupMqttLock
    \/ CleanupMqttDone

SpecAgent == InitAgent /\ [][NextAgent]_vars

-----------------------------------------------------------------------------
(* Properties *)

\* C1 (Spec): the frames of execute_with_depth that are active at once and
\* passed the depth check are at most max_call_depth, they sit at depths
\* 0, 1, ... below max_call_depth, and no frame at depth >= max_call_depth
\* dispatched an action.
C1_DepthBound ==
    /\ Len(stack) <= max_call_depth
    /\ \A i \in 1..Len(stack) :
         stack[i].depth = i - 1 /\ stack[i].depth < max_call_depth
    /\ \A e \in dispatch_log : e[2] < max_call_depth

\* the deepest allowed frame got the depth failure back from its call_script
C1_Witness ==
    /\ Len(stack) = max_call_depth
    /\ Top.results # <<>>
    /\ Top.results[1].action_type = "call_script"
    /\ ~Top.results[1].success
    /\ Top.results[1].message[3] = <<"Max call depth exceeded", max_call_depth>>

\* C2 (SpecRL): in any interval of 60 seconds at most default_limit checks of one
\* script id return true.
C2_RateBoundAnyInterval ==
    \A s \in ScriptIds : Len(Recent(accepts[s], now)) <= default_limit

\* the definition a top-level result belongs to
ResultDefinition == scripts[last_exec.script_id].definition

\* C3 (Spec), as claimed: every top-level result has
\* actions_executed + actions_failed <= max_actions_per_run + |on_error|.
C3_ActionBoundOriginal ==
    (last_exec.kind = "Ok" /\ last_exec.script_id \in DOMAIN scripts) =>
        last_exec.actions_executed + last_exec.actions_failed
            <= max_actions_per_run + Len(ResultDefinition.on_error)

\* C3 (Spec), amended: every top-level result has
\* actions_executed + actions_failed <= max_actions_per_run + 2 (the recorded
\* dispatches, one dispatch whose record_action answered TimeExceeded, and the
\* terminal limit failure); on_error results are not counted.
C3_ActionBound ==
    last_exec.kind = "Ok" =>
        last_exec.actions_executed + last_exec.actions_failed
            <= max_actions_per_run + 2

\* a result that meets the amended bound exactly
C3_Witness ==
    /\ last_exec.kind = "Ok"
    /\ last_exec.actions_failed = 1
    /\ last_exec.actions_executed = max_actions_per_run + 1

\* C4 (Spec): while no frame has run out of time, the actions dispatched by a
\* top-level execute and all frames nested under it number at most
\* max_actions_per_run.
C4_QuotaPerInvocation ==
    (\A i \in 1..Len(stack) : ~stack[i].exec_ctx.late) =>
        run_dispatched <= max_actions_per_run

\* C5 (Spec): within one tick the actor receives no second request with the
\* same value for a target from a different script.
C5_DuplicateSuppressed ==
    \A i, j \in 1..Len(hw_requests) :
        (i < j /\ hw_requests[i].key = hw_requests[j].key
               /\ hw_requests[i].script_id # hw_requests[j].script_id)
            => hw_requests[i].value # hw_requests[j].value

\* C6 (Spec): a successful write that follows, in the same tick, another script's
\* write of a different value to the same target carries the conflict diagnostic
\* in its ActionResult.
C6_ConflictSurfaced ==
    \A j \in 1..Len(hw_requests) :
        (/\ hw_requests[j].success
         /\ \E i \in 1..(j - 1) :
               /\ hw_requests[i].success
               /\ hw_requests[i].key = hw_requests[j].key
               /\ hw_requests[i].script_id # hw_requests[j].script_id
               /\ hw_requests[i].value # hw_requests[j].value)
            => hw_requests[j].message[1] = "GPIO CONFLICT"

\* C7 (Spec): for every target written in the tick the detector holds a pending
\* write, and its value is the value last sent to the actor for that target.
C7_ConflictDeterminism ==
    \A j \in 1..Len(hw_requests) :
        (\A k \in (j + 1)..Len(hw_requests) : hw_requests[k].key # hw_requests[j].key)
            => /\ hw_requests[j].key \in DOMAIN gpio_writes
               /\ gpio_writes[hw_requests[j].key].value = hw_requests[j].value

\* C8 (SpecCD): an attempt returns NoConflict iff nothing is pending for the
\* target or the pending write is the same script's, Duplicate iff another
\* script's pending write has the same value, Conflict otherwise; the first
\* attempt on a target since construction or reset returns NoConflict.
C8_Classification ==
    cd_last.called =>
        LET none == cd_last.prior = <<>>
            same == ~none /\ cd_last.prior[1].script_id = cd_last.script_id
            equal == ~none /\ cd_last.prior[1].value = cd_last.value[1]
            kind == cd_last.result.kind
        IN /\ (kind = "NoConflict") <=> (none \/ same)
           /\ (kind = "Duplicate") <=> (~none /\ ~same /\ equal)
           /\ (kind = "Conflict") <=> (~none /\ ~same /\ ~equal)
           /\ cd_last.first => kind = "NoConflict"

\* after a reset, a second script repeated the first one's value
C8_Witness ==
    /\ cd_last.called
    /\ cd_last.after_reset
    /\ cd_last.result.kind = "Duplicate"

\* C9 (SpecCD): when two scripts asked for different values of one target since
\* the last reset, some attempt on that target returned Conflict.
C9_DetectionComplete ==
    \A a, b \in cd_attempts :
        (a[1] = b[1] /\ a[2] = b[2] /\ a[3] # b[3] /\ a[4] # b[4])
            => <<a[1], a[2]>> \in cd_conflicts

\* C10 (SpecReload): a script whose error_count reached 5 and that was not
\* re-enabled since is not returned by get_active and is not among the scripts
\* a tick runs.
C10_StickyError ==
    \A s \in sticky :
        /\ s \notin get_active(scripts)
        /\ \A i \in 1..Len(scripts_to_run) : scripts_to_run[i] # s

\* C11 (Spec): a script with no execute_with_depth frame in progress does not
\* have status running (after a failed run below the error threshold it is
\* active again).
C11_RunningOnlyInProgress ==
    \A s \in DOMAIN scripts :
        (\A i \in 1..Len(stack) : stack[i].script_id # s)
            => scripts[s].status # "running"

\* C12 (SpecAdmin): whenever no execution is in progress, every script whose
\* definition has enabled = false has status paused.
C12_DisabledIsPaused ==
    stack = <<>> =>
        \A s \in DOMAIN scripts :
            ~scripts[s].definition.enabled => scripts[s].status = "paused"

\* C13 (Spec): outside an execution in progress, a script with error_count >= 5
\* has status error.
C13_ErrorCountImpliesError ==
    stack = <<>> =>
        \A s \in DOMAIN scripts :
            scripts[s].error_count >= ErrorThreshold => scripts[s].status = "error"

\* the last call of the breaker returned and no other call has started
AfterCall(op, pre) ==
    AllIdle /\ cb_last.called /\ cb_last.op = op /\ cb_last.pre = pre

\* C14 (SpecCB): from closed the breaker is open exactly when failure_threshold
\* failures were recorded with no success in between; a record_success in
\* closed sets failure_count to 0; below the threshold is_open returns false.
C14_ClosedState ==
    /\ (AllIdle /\ cb_state = STATE_CLOSED) => cb_consec < failure_threshold
    /\ AfterCall("record_failure", STATE_CLOSED) =>
          /\ cb_state = STATE_OPEN <=> cb_consec >= failure_threshold
          /\ cb_state = STATE_CLOSED <=> cb_consec < failure_threshold
          /\ cb_state = STATE_CLOSED => failure_count = cb_consec
    /\ AfterCall("record_success", STATE_CLOSED) =>
          failure_count = 0 /\ cb_state = STATE_CLOSED
    /\ AfterCall("is_open", STATE_CLOSED) =>
          ~cb_last.result /\ cb_state = STATE_CLOSED

\* the failure that reached the threshold opened the breaker
C14_Witness ==
    /\ AfterCall("record_failure", STATE_CLOSED)
    /\ cb_state = STATE_OPEN
    /\ cb_consec = failure_threshold
    /\ last_failure = <<cb_last.at>>

\* C15 (SpecCB): an is_open call on an open breaker returns true and leaves it
\* open while now - last_failure < recovery_timeout, and returns false and
\* leaves it half_open once now - last_failure >= recovery_timeout; recording
\* a success or a failure leaves an open breaker open.
C15_OpenState ==
    /\ AfterCall("is_open", STATE_OPEN) =>
          /\ last_failure # <<>>
          /\ IF cb_last.at - last_failure[1] < recovery_timeout
             THEN cb_last.result /\ cb_state = STATE_OPEN
             ELSE ~cb_last.result /\ cb_state = STATE_HALF_OPEN
    /\ AfterCall("record_success", STATE_OPEN) => cb_state = STATE_OPEN
    /\ AfterCall("record_failure", STATE_OPEN) => cb_state = STATE_OPEN

\* exactly recovery_timeout after the failure, is_open let the call through
C15_Witness ==
    /\ AfterCall("is_open", STATE_OPEN)
    /\ ~cb_last.result
    /\ cb_state = STATE_HALF_OPEN
    /\ cb_last.at - last_failure[1] = recovery_timeout

\* C16 (SpecCB): in half_open is_open returns false; one record_failure opens
\* the breaker; a record_success closes it exactly when it is the second
\* success of this half_open period, and the first leaves it half_open.
C16_HalfOpenState ==
    /\ AfterCall("is_open", STATE_HALF_OPEN) =>
          ~cb_last.result /\ cb_state = STATE_HALF_OPEN
    /\ AfterCall("record_failure", STATE_HALF_OPEN) =>
          cb_state = STATE_OPEN /\ last_failure = <<cb_last.at>>
    /\ AfterCall("record_success", STATE_HALF_OPEN) =>
          /\ cb_state = STATE_CLOSED <=> cb_period.successes >= 2
          /\ cb_state = STATE_HALF_OPEN <=> cb_period.successes = 1

\* the second success of a half_open period closed the breaker
C16_Witness ==
    /\ AfterCall("record_success", STATE_HALF_OPEN)
    /\ cb_state = STATE_CLOSED
    /\ cb_period.successes = 2
    /\ failure_count = 0

\* C17 (SpecCBC): with overlapping calls, every store of closed by
\* record_success ends a half_open period in which at least 2 successes and no
\* failure were recorded.
C17_ConcurrentClose ==
    cb_close.happened =>
        cb_close.successes >= success_threshold /\ ~cb_close.failed

\* the limiter counted a check of id beyond the limit in this step: the check
\* answered false
Rejected(id) ==
    /\ id \in DOMAIN windows'
    /\ windows'[id].count > rate_limit_per_minute
    /\ id \in DOMAIN windows => windows'[id] # windows[id]

\* C18 (Spec): a step in which the rate limiter rejects script id leaves the
\* stored scripts (status, error_count, last_run, last_result) unchanged, and
\* execute returns success = false, actions_executed = 0 and a single failure
\* entry whose message starts with "Rate limit exceeded": to the top-level
\* caller as the result, to a calling frame as the reason of its failed
\* call_script action.
C18_RateRejection ==
    [][\A id \in ScriptIds :
         Rejected(id) =>
           /\ scripts' = scripts
           /\ IF stack = <<>>
              THEN /\ stack' = <<>>
                   /\ last_exec'.kind = "Ok"
                   /\ last_exec'.script_id = id
                   /\ ~last_exec'.success
                   /\ last_exec'.actions_executed = 0
                   /\ Len(last_exec'.results) = 1
                   /\ ~last_exec'.results[1].success
                   /\ last_exec'.results[1].message[1] = "Rate limit exceeded"
              ELSE /\ Len(stack') = Len(stack)
                   /\ LET rs == stack'[Len(stack')].results IN
                        /\ Len(rs) = Len(Top.results) + 1
                        /\ ~rs[Len(rs)].success
                        /\ rs[Len(rs)].message[1] = "Script failed"
                        /\ rs[Len(rs)].message[2] = id
                        /\ rs[Len(rs)].message[3][1] = "Rate limit exceeded"]_vars

\* a top-level execute was rejected by the limiter after the script had run
C18_Witness ==
    /\ stack = <<>>
    /\ last_exec.kind = "Ok"
    /\ last_exec.script_id \in DOMAIN windows
    /\ windows[last_exec.script_id].count > rate_limit_per_minute
    /\ Len(last_exec.results) = 1
    /\ last_exec.results[1].message[1] = "Rate limit exceeded"
    /\ last_exec.script_id \in DOMAIN scripts
    /\ scripts[last_exec.script_id].last_run # <<>>

\* C19 (Spec): no ExecutionContext counts more than max_actions_per_run
\* successful record_action calls; and a frame running a script of
\* max_actions_per_run + 1 actions that all succeed, within the time limit,
\* counts one record per dispatched action while it runs and ends with exactly
\* max_actions_per_run actions dispatched and succeeded, the counter still at
\* max_actions_per_run after the failing record_action, actions_failed = 1 from
\* the limit check on the last action, and nothing dispatched after it.
C19_QuotaBoundary ==
    \A i \in 1..Len(stack) :
        LET f == stack[i] IN
        /\ f.exec_ctx.actions_executed <= max_actions_per_run
        /\ (f.definition = OverByOne(f.script_id) /\ ~f.exec_ctx.late) =>
             /\ f.phase # "on_error"
             /\ f.phase = "actions" =>
                  /\ f.exec_ctx.actions_executed = Len(f.results)
                  /\ f.idx = Len(f.results) + 1
                  /\ f.actions_failed = 0
             /\ f.phase = "done" =>
                  /\ f.exec_ctx.actions_executed = max_actions_per_run
                  /\ f.actions_executed = max_actions_per_run
                  /\ f.actions_failed = 1
                  /\ Len(f.results) = max_actions_per_run + 1
                  /\ \A j \in 1..max_actions_per_run :
                       f.results[j] = ActionResult(TRUE, "noop", <<"No operation">>)
                  /\ f.results[max_actions_per_run + 1] =
                       ActionResult(FALSE, "noop",
                                    <<"Action limit exceeded", max_actions_per_run>>)
                  /\ Len(stack) = 1 => run_dispatched = max_actions_per_run

\* the top-level run of such a script stopped at the limit check
C19_Witness ==
    /\ Len(stack) = 1
    /\ Top.definition = OverByOne(Top.script_id)
    /\ ~Top.exec_ctx.late
    /\ Top.phase = "done"
    /\ Top.actions_failed = 1
    /\ run_dispatched = max_actions_per_run

\* C20 (Spec): a top-level execute returns an error only for a script id that
\* is not in the storage, and an in-band result for every script that is
\* (whatever the outcome: rate limited, conditions not met, failed actions, a
\* failed nested call); inside a frame, a call_script whose target is not in
\* the storage, or is refused at the depth limit, is a failed action result of
\* the caller, which itself goes on to return an in-band result.
C20_ErrorPropagation ==
    /\ last_exec.kind = "Err" => last_exec.script_id \notin DOMAIN scripts
    /\ (last_exec.kind # "None" /\ last_exec.script_id \in DOMAIN scripts) =>
           last_exec.kind = "Ok"
    /\ \A i \in 1..Len(stack) :
         LET f == stack[i] IN
         /\ f.script_id \in DOMAIN scripts
         /\ \A j \in 1..Len(f.results) :
              (/\ j <= Len(f.definition.actions)
               /\ f.results[j].action_type = "call_script"
               /\ f.definition.actions[j].script_id # <<>>
               /\ \/ f.definition.actions[j].script_id[1] \notin DOMAIN scripts
                  \/ depth_exceeded(f.depth + 1))
                  => ~f.results[j].success

\* a script whose call_script names a missing script returned its result in
\* band: a failed action carrying the inner error
C20_Witness ==
    /\ last_exec.kind = "Ok"
    /\ ~last_exec.success
    /\ last_exec.actions_failed = 1
    /\ last_exec.results # <<>>
    /\ last_exec.results[1].action_type = "call_script"
    /\ last_exec.results[1].message[1] = "Failed to call script"
    /\ last_exec.results[1].message[2] \notin DOMAIN scripts

\* the results of the primary loop are the first of a frame's results
Primary(f) == f.actions_executed + f.actions_failed

\* a failed result whose reason is a limit: time budget, action count, call
\* depth, rate limit, delay above max_delay_ms
LimitFailure(r) ==
    /\ ~r.success
    /\ \/ r.message[1] \in {"Execution time limit exceeded", "Action limit exceeded",
                            "Delay exceeds maximum allowed"}
       \/ /\ r.message[1] = "Script failed"
          /\ r.message[3][1] \in {"Max call depth exceeded", "Rate limit exceeded"}

\* C21 (Spec): in every frame a result that failed for a limit reason is the
\* last result of the primary loop (no action is dispatched after it), and a
\* primary loop that ended without a limit failure dispatched every action of
\* the script (failures for other reasons did not stop it).
C21_LimitStopsLoop ==
    \A i \in 1..Len(stack) :
        LET f == stack[i] IN
        /\ \A j \in 1..Primary(f) : LimitFailure(f.results[j]) => j = Primary(f)
        /\ (f.phase # "actions" /\ \A j \in 1..Primary(f) : ~LimitFailure(f.results[j]))
              => Primary(f) = Len(f.definition.actions)

\* the on_error actions a frame has dispatched
OnErrorDispatched(f) == Len(f.results) - Primary(f)

\* C22 (Spec), as claimed: a finished frame in which a primary action failed
\* (for whatever reason) and whose on_error is not empty has dispatched the
\* on_error actions, and a frame without a failed primary action has
\* dispatched none.
C22_OnErrorOriginal ==
    \A i \in 1..Len(stack) :
        LET f == stack[i] IN
        /\ f.actions_failed = 0 => (OnErrorDispatched(f) = 0 /\ f.phase # "on_error")
        /\ (f.phase = "done" /\ f.actions_failed > 0) =>
              OnErrorDispatched(f) = Len(f.definition.on_error)

\* C22 (Spec), amended: a frame without a failed primary action dispatches no
\* on_error action; a finished frame with a failed primary action has
\* dispatched the on_error actions in order up to the first one whose
\* record_action failed: all of them, unless the shared action quota was used
\* up or the time budget was exceeded.
C22_OnErrorDispatch ==
    \A i \in 1..Len(stack) :
        LET f == stack[i] IN
        /\ f.actions_failed = 0 => (OnErrorDispatched(f) = 0 /\ f.phase # "on_error")
        /\ OnErrorDispatched(f) <= Len(f.definition.on_error)
        /\ \A j \in 1..OnErrorDispatched(f) :
              f.results[Primary(f) + j].action_type = f.definition.on_error[j].action_type
        /\ (f.phase = "done" /\ f.actions_failed > 0) =>
              \/ OnErrorDispatched(f) = Len(f.definition.on_error)
              \/ f.exec_ctx.actions_executed = max_actions_per_run
              \/ f.exec_ctx.late

\* after a failed primary action the quota, not the time, kept on_error
\* actions from being dispatched
C22_Witness ==
    /\ stack # <<>>
    /\ Top.phase = "done"
    /\ Top.actions_failed > 0
    /\ ~Top.exec_ctx.late
    /\ OnErrorDispatched(Top) < Len(Top.definition.on_error)
    /\ Top.exec_ctx.actions_executed = max_actions_per_run

\* C23 (Spec): during a pass of the loop every frame that passed its script's
\* conditions passes them against the context captured at the start of the
\* pass, and every inline guard was decided as that context decides it.
C23_SameSnapshot ==
    pc = "tick" =>
        \A i \in 1..Len(stack) :
            LET f == stack[i] IN
            /\ evaluate_conditions(tick_context, f.definition.conditions)
            /\ \A j \in 1..Primary(f) :
                  f.definition.actions[j].condition # <<>> =>
                     ((f.results[j].message = <<"Condition not met - skipped">>)
                        <=> ~evaluate_condition(tick_context,
                                                f.definition.actions[j].condition[1]))

\* C24 (SpecLife): for every script, at most one execution at depth 0 is
\* started on account of its startup trigger, counting the startup pass of
\* init and the passes of the loop in which the trigger fires.
C24_StartupOnce ==
    \A id \in ScriptIds : startup_runs[id] <= 1

\* C25 (SpecLife): the engine task stops only between passes of its loop, with
\* no frame and no selected script left, and the hardware is disconnected only
\* after the engine task has stopped.
C25_ShutdownOrdering ==
    /\ pc = "stopped" => (stack = <<>> /\ scripts_to_run = <<>>)
    /\ main = "disconnected" => pc = "stopped"

\* C26 (SpecReload): a pass of the loop that reloads the storage leaves it
\* either as a load of the whole directory or, when load_all failed, exactly as
\* it was before the call (same ids, definitions, status, error_count).
C26_ReloadFailureKeepsState ==
    [][(ticks' = ticks + 1 /\ reload_counter + 1 >= ReloadTicks) =>
          (scripts' = load_all(disk, TRUE) \/ scripts' = scripts)]_vars

\* C27 (SpecAgent): once delete(id) has answered Ok(true), the directory holds
\* no file, {id}.json or {id}.yaml, from which load_all would load that id.
C27_DeleteDurable ==
    (cmd_last.command = "delete_script" /\ cmd_last.success) =>
        \A ss \in load_all_files(dir, TRUE) : cmd_last.id \notin DOMAIN ss

\* C28 (SpecAgent): while the command path deploys an id the engine's storage
\* holds, every step, a load_all of the engine among them, leaves the engine's
\* storage with that id, under the definition it had or the one being deployed.
C28_DeployVisibleToReload ==
    [][\A id \in ScriptIds :
          (cmd_pc # <<>> /\ cmd_pc[1].id = id /\ id \in DOMAIN scripts) =>
              /\ id \in DOMAIN scripts'
              /\ scripts'[id].definition \in {scripts[id].definition, cmd_pc[1]}]_vars

\* C29 (SpecAgent): no task holds a guard of AppState's lock while it awaits
\* I/O.
C29_NoLockAcrossIO ==
    \A t \in Tasks : task_pc[t] \in IOPoints => guards[t] = "none"

\* C30 (SpecFair): every top-level execute, whatever its scripts call, comes to
\* its end and returns a result, given that actor requests and delays return.
C30_ExecuteTerminates ==
    (stack # <<>>) ~> (stack = <<>> /\ last_exec # NoResult)

RECURSIVE DepthLimitIn(_)
\* the message of a failed call_script that goes back, through the calls
\* below it, to the depth limit
DepthLimitIn(message) ==
    \/ message[1] = "Max call depth exceeded"
    \/ message[1] = "Script failed" /\ DepthLimitIn(message[3])

\* a top-level execute of a script that calls itself has returned, after the
\* chain of calls it started ran into the depth limit
C30_Witness ==
    /\ stack = <<>>
    /\ last_exec.kind = "Ok"
    /\ last_exec.script_id \in DOMAIN scripts
    /\ \E k \in 1..Len(scripts[last_exec.script_id].definition.actions) :
          scripts[last_exec.script_id].definition.actions[k].script_id
              = <<last_exec.script_id>>
    /\ \E k \in 1..Len(last_exec.results) :
          /\ last_exec.results[k].action_type = "call_script"
          /\ ~last_exec.results[k].success
          /\ DepthLimitIn(last_exec.results[k].message)

\* the action the top frame is at
CurrentAction ==
    IF Top.phase = "actions" THEN Top.definition.actions[Top.idx]
    ELSE Top.definition.on_error[Top.idx]

\* the condition is false in the context: its source is missing, or the
\* comparison with the value found there fails
CondFalse(c) ==
    \/ c.source \notin DOMAIN context
    \/ c.operator = "eq" /\ context[c.source] # c.value
    \/ c.operator = "ne" /\ context[c.source] = c.value

\* the inline condition of the action is false in the context
GuardFalse(action) ==
    /\ action.condition # <<>>
    /\ CondFalse(action.condition[1])

\* C31 (Spec): a dispatched action whose inline condition is false, a missing
\* source included, yields the success "Condition not met - skipped", sends
\* nothing to a hardware actor, leaves the context as it is and is not counted as
\* failed.
C31_InlineGuardSkips ==
    [][(/\ stack # <<>>
        /\ Top.phase \in {"actions", "on_error"}
        /\ run_dispatched' = run_dispatched + 1
        /\ GuardFalse(CurrentAction))
       => /\ hw_requests' = hw_requests
          /\ context' = context
          /\ Len(stack') = Len(stack)
          /\ LET g == stack'[Len(stack)] IN
               /\ g.actions_failed = Top.actions_failed
               /\ Len(g.results) = Len(Top.results) + 1
               /\ g.results[Len(g.results)].success
               /\ g.results[Len(g.results)].message = <<"Condition not met - skipped">>]_vars

\* a pin write was skipped because the source of its condition is missing, and
\* a variable write because its condition is false
C31_Witness ==
    /\ pc = "tick"
    /\ stack # <<>>
    /\ hw_requests = <<>>
    /\ Len(Top.results) = 2
    /\ Top.definition.actions[1].action_type = "set_gpio"
    /\ Top.definition.actions[2].action_type = "set_variable"
    /\ Top.results[1].message = <<"Condition not met - skipped">>
    /\ Top.results[2].message = <<"Condition not met - skipped">>
    /\ Top.actions_failed = 0
    /\ "var.flag" \notin DOMAIN context

\* the top frame dispatches a call_script that enters execute_with_depth at or
\* beyond the depth limit
CallsBeyondDepth ==
    /\ stack # <<>>
    /\ Top.phase \in {"actions", "on_error"}
    /\ run_dispatched' = run_dispatched + 1
    /\ ~GuardFalse(CurrentAction)
    /\ CurrentAction.action_type = "call_script"
    /\ CurrentAction.script_id # <<>>
    /\ Top.depth + 1 >= max_call_depth

\* C32 (Spec): an execute entered at depth >= max_call_depth returns its failure
\* "Max call depth exceeded" and changes neither the storage (status,
\* error_count, last_result of any script) nor the rate limiter's windows.
C32_DepthRejectionFrame ==
    [][CallsBeyondDepth
       => /\ scripts' = scripts
          /\ windows' = windows
          /\ Len(stack') = Len(stack)
          /\ LET g == stack'[Len(stack)]
                 r == g.results[Len(g.results)]
             IN /\ ~r.success
                /\ r.action_type = "call_script"
                /\ r.message[3] = <<"Max call depth exceeded", max_call_depth>>]_vars

\* a frame at the last depth allowed holds the failed call_script of a call the
\* depth limit rejected
C32_Witness ==
    /\ stack # <<>>
    /\ Top.depth = max_call_depth - 1
    /\ Top.results # <<>>
    /\ Top.results[Len(Top.results)].action_type = "call_script"
    /\ ~Top.results[Len(Top.results)].success
    /\ Top.results[Len(Top.results)].message[1] = "Script failed"
    /\ Top.results[Len(Top.results)].message[3]
          = <<"Max call depth exceeded", max_call_depth>>

\* the step enters execute_with_depth(id, 0): from the loop over scripts_to_run,
\* or from execute_script
TopEntryOf(id) ==
    /\ stack = <<>>
    /\ \/ /\ pc = "tick"
          /\ scripts_to_run # <<>>
          /\ Head(scripts_to_run) = id
          /\ scripts_to_run' = Tail(scripts_to_run)
       \/ /\ pc = "idle"
          /\ runs' = runs + 1
          /\ ticks' = ticks
          /\ IF stack' # <<>> THEN stack'[1].script_id = id
                              ELSE last_exec'.script_id = id

\* the step enters execute_with_depth(id, depth) from a call_script action, with
\* depth below the limit
NestedEntryOf(id) ==
    /\ stack # <<>>
    /\ Top.phase \in {"actions", "on_error"}
    /\ run_dispatched' = run_dispatched + 1
    /\ ~GuardFalse(CurrentAction)
    /\ CurrentAction.action_type = "call_script"
    /\ CurrentAction.script_id = <<id>>
    /\ Top.depth + 1 < max_call_depth

\* the script is stored, the limiter lets it in, and one of its conditions is
\* false in the context
HeldBack(id) ==
    /\ id \in DOMAIN scripts
    /\ check(windows, id, now, rate_limit_per_minute).ok
    /\ \E k \in 1..Len(scripts[id].definition.conditions) :
          CondFalse(scripts[id].definition.conditions[k])

\* what update_result(id, true, "Conditions not met - skipped") leaves
SkippedRecord(id) ==
    /\ scripts'[id].error_count = 0
    /\ scripts'[id].status = "active"
    /\ scripts'[id].last_result = << <<"Conditions not met - skipped">> >>

\* C33 (Spec): an execute of a script one of whose conditions is false (a
\* missing source counts as false) dispatches no action, returns success with
\* actions_executed = 0 and actions_failed = 0, and leaves the script with
\* error_count 0 and status active; at depth 0 and through call_script.
C33_ConditionsNotMet ==
    [][\A id \in ScriptIds :
         /\ (TopEntryOf(id) /\ HeldBack(id))
               => /\ stack' = <<>>
                  /\ last_exec' = ExecutionResult(id, TRUE, 0, 0, <<>>)
                  /\ run_dispatched' = 0
                  /\ hw_requests' = hw_requests
                  /\ context' = context
                  /\ SkippedRecord(id)
         /\ (NestedEntryOf(id) /\ HeldBack(id))
               => /\ Len(stack') = Len(stack)
                  /\ stack'[Len(stack)].results[Len(Top.results) + 1].success
                  /\ hw_requests' = hw_requests
                  /\ context' = context
                  /\ SkippedRecord(id)]_vars

\* a top-level execute of a script whose condition reads a source the context
\* does not have has returned its skip
C33_Witness ==
    /\ stack = <<>>
    /\ last_exec.kind = "Ok"
    /\ last_exec.success
    /\ last_exec.results = <<>>
    /\ last_exec.script_id \in DOMAIN scripts
    /\ scripts[last_exec.script_id].definition.conditions # <<>>
    /\ scripts[last_exec.script_id].definition.conditions[1].source \notin DOMAIN context
    /\ scripts[last_exec.script_id].last_result = << <<"Conditions not met - skipped">> >>
    /\ scripts[last_exec.script_id].status = "active"

\* C34 (SpecCB): once a call has moved the breaker into open (record_failure
\* from closed at the threshold, or from half_open) or from open into half_open
\* (is_open after the recovery timeout), failure_count and success_count are 0.
C34_CountersResetOnTransition ==
    (/\ AllIdle
     /\ cb_last.called
     /\ \/ /\ cb_last.op = "record_failure"
           /\ cb_last.pre # STATE_OPEN
           /\ cb_state = STATE_OPEN
        \/ /\ cb_last.op = "is_open"
           /\ cb_last.pre = STATE_OPEN
           /\ cb_state = STATE_HALF_OPEN)
    => (failure_count = 0 /\ success_count = 0)

\* the result pushed when the primary loop breaks on a limit of its own
\* (engine.rs 302-309, 313-320): no action was dispatched for it
BreakMarker(r) ==
    /\ ~r.success
    /\ r.action_type = "noop"
    /\ r.message[1] \in {"Execution time limit exceeded", "Action limit exceeded"}

\* the actions frame i has handed to execute_action_with_depth so far: one per
\* pushed result that is not a break marker, and the call_script action a
\* frame below the top is waiting in
FrameDispatched(i) ==
    Cardinality({j \in 1..Len(stack[i].results) : ~BreakMarker(stack[i].results[j])})
        + (IF i < Len(stack) THEN 1 ELSE 0)

\* C35 (Spec): in one execute frame the actions dispatched, primary and
\* on_error together, never number more than max_actions_per_run, and the
\* frame's counter never stands above max_actions_per_run.
C35_SharedQuotaInFrame ==
    \A i \in 1..Len(stack) :
        /\ FrameDispatched(i) <= max_actions_per_run
        /\ stack[i].exec_ctx.actions_executed <= max_actions_per_run

\* the messages of the actions that failed in frame f
FailedMessages(f) ==
    {f.results[j].message : j \in {k \in 1..Len(f.results) : ~f.results[k].success}}

\* C36 (Spec): when a nested execution returns success = false to the
\* call_script action that started it, that action fails and the reason in its
\* message is the message of an action that failed in the inner execution.
C36_NestedFailureMessage ==
    [][(/\ Len(stack) >= 2
        /\ Top.phase = "done"
        /\ Top.actions_failed > 0
        /\ Len(stack') = Len(stack) - 1)
       => LET p == stack'[Len(stack')]
              r == p.results[Len(p.results)]
          IN /\ ~r.success
             /\ r.action_type = "call_script"
             /\ r.message[1] = "Script failed"
             /\ r.message[3] \in FailedMessages(Top)]_vars

\* the limiter's window of id after one check-and-increment made now
Checked(id) == check(windows, id, now, rate_limit_per_minute)

\* C37 (Spec): every execute call that passes the depth check, from the top
\* level or from a call_script action, makes exactly one check-and-increment
\* of the rate limiter, for its own script id and whether or not the script is
\* stored; a nested call the limiter refuses changes no script and leaves the
\* failure "Rate limit exceeded" in the calling frame, whatever budget the
\* calling script has left.
C37_NestedCallsConsumeBudget ==
    [][\A id \in ScriptIds :
         (TopEntryOf(id) \/ NestedEntryOf(id)) =>
           /\ windows' = Checked(id).windows
           /\ windows'[id].count
                 = (IF id \in DOMAIN windows
                       /\ now - windows[id].window_start < RateWindowSecs
                    THEN windows[id].count ELSE 0) + 1
           /\ (NestedEntryOf(id) /\ ~Checked(id).ok) =>
                 /\ scripts' = scripts
                 /\ Len(stack') = Len(stack)
                 /\ LET rs == stack'[Len(stack')].results IN
                      /\ ~rs[Len(rs)].success
                      /\ rs[Len(rs)].action_type = "call_script"
                      /\ rs[Len(rs)].message[1] = "Script failed"
                      /\ rs[Len(rs)].message[2] = id
                      /\ rs[Len(rs)].message[3][1] = "Rate limit exceeded"]_vars

\* a frame holds the failure of a nested call the limiter refused, and the
\* limiter would still let the frame's own script in
C37_Witness ==
    /\ stack # <<>>
    /\ Top.results # <<>>
    /\ LET r == Top.results[Len(Top.results)] IN
         /\ ~r.success
         /\ r.action_type = "call_script"
         /\ r.message[1] = "Script failed"
         /\ r.message[2] # Top.script_id
         /\ r.message[3][1] = "Rate limit exceeded"
    /\ Checked(Top.script_id).ok

\* thread t is inside a record_success or record_failure that found the
\* breaker open
ReportsWhileOpen(t) ==
    /\ threads[t].pc # "idle"
    /\ threads[t].op \in {"record_success", "record_failure"}
    /\ threads[t].pre = STATE_OPEN

\* C38 (SpecCB): a record_success or record_failure made while the breaker is
\* open returns after its load of the state and leaves state, failure_count,
\* success_count and last_failure as they were, so a failure reported while
\* open does not move the start of the recovery period.
C38_OpenIgnoresReports ==
    [][\A t \in Threads :
         ReportsWhileOpen(t) =>
           /\ threads'[t].pc = "idle"
           /\ UNCHANGED <<cb_state, failure_count, success_count, last_failure>>]_vars

\* a failure was reported to the open breaker later than the failure that
\* opened it and before the recovery timeout, and the stamp is the old one
C38_Witness ==
    /\ AfterCall("record_failure", STATE_OPEN)
    /\ cb_state = STATE_OPEN
    /\ last_failure # <<>>
    /\ cb_last.at > last_failure[1]
    /\ cb_last.at - last_failure[1] < recovery_timeout

\* the top frame returns in this step (engine.rs 346-363)
FrameReturns ==
    /\ stack # <<>>
    /\ Top.phase = "done"
    /\ Len(stack') = Len(stack) - 1

\* the stored script calls itself, in one action of its primary list and
\* nowhere else, unconditionally
SelfCalling(id) ==
    /\ id \in DOMAIN scripts
    /\ LET d == scripts[id].definition
           calls == {k \in 1..Len(d.actions) : d.actions[k].action_type = "call_script"}
       IN /\ Cardinality(calls) = 1
          /\ \A k \in calls : d.actions[k].script_id = <<id>> /\ d.actions[k].condition = <<>>
          /\ d.conditions = <<>>
          /\ \A k \in 1..Len(d.on_error) : d.on_error[k].action_type # "call_script"

\* the chain of calls below frame f went down to the depth limit
RanToDepthLimit(f) ==
    \E k \in 1..Len(f.results) :
        /\ f.results[k].action_type = "call_script"
        /\ ~f.results[k].success
        /\ DepthLimitIn(f.results[k].message)

EngineWritesModbus(v) ==
    /\ stack # <<>>
    /\ Top.phase \in {"actions", "on_error"}
    /\ run_dispatched' = run_dispatched + 1
    /\ ~GuardFalse(CurrentAction)
    /\ CurrentAction.action_type = "write_modbus"
    /\ CurrentAction.device # <<>>
    /\ CurrentAction.address # <<>>
    /\ CurrentAction.value = <<v>>

\* C40 (SpecModbus): a write_modbus action, and a write_modbus command, whose
\* value is an integer v above 65535 is not refused for its value, and the
\* value that goes to the Modbus actor (and into the success message or the
\* response) is v mod 65536.
C40_ModbusValueWraps ==
    [][\A v \in {w \in ModbusValues : w > U16Modulus - 1} :
         /\ EngineWritesModbus(v) =>
               LET g == stack'[Len(stack)]
                   r == g.results[Len(g.results)]
                   a == CurrentAction
               IN /\ Len(g.results) = Len(Top.results) + 1
                  /\ r.action_type = "write_modbus"
                  /\ r.message[1] \in {"Wrote", "Failed", "Modbus not available"}
                  /\ r.success =>
                        r.message = <<"Wrote", v % U16Modulus, a.device[1], a.address[1]>>
                  /\ (pc = "tick" /\ r.message[1] # "Modbus not available") =>
                        /\ Len(hw_requests') = Len(hw_requests) + 1
                        /\ hw_requests'[Len(hw_requests')].actor = "modbus"
                        /\ hw_requests'[Len(hw_requests')].value = v % U16Modulus
         /\ (/\ cmd_last'.command = "write_modbus"
             /\ cmd_last'.value = <<v>>
             /\ cmd_last'.error \notin {"Missing 'device' parameter",
                                         "Missing 'address' parameter"}) =>
               /\ cmd_last'.error \in {"", "No Modbus devices configured", "Write failed"}
               /\ cmd_last'.error # "No Modbus devices configured" =>
                     cmd_last'.sent = <<v % U16Modulus>>]_vars

\* a script's write of 65537 was answered "Wrote 1", and the last command asked
\* for 65536 and its response carries 0
C40_Witness ==
    /\ stack # <<>>
    /\ Top.definition.actions[1].action_type = "write_modbus"
    /\ Top.definition.actions[1].value = <<U16Modulus + 1>>
    /\ Top.results # <<>>
    /\ Top.results[1].success
    /\ Top.results[1].message[1] = "Wrote"
    /\ Top.results[1].message[2] = 1
    /\ cmd_last.command = "write_modbus"
    /\ cmd_last.success
    /\ cmd_last.value = <<U16Modulus>>
    /\ cmd_last.sent = <<0>>
====
